---- MODULE Spec2Model ----
(***************************************************************************)
(* Verification model of the model-execution and mask-persistence core of  *)
(* ssg-hs-forensics-app.                                                    *)
(*                                                                          *)
(*   Spec / FairSpec : core/safe_generate_masks.py, the supervisor          *)
(*                     (safe_generate_masks) and the child (_sam_worker).   *)
(*   SpecRun         : cli/cmd_generate.py, the run path, and the           *)
(*                     model_factory safe wrapper.                          *)
(*   SpecStore       : core/mask_writer.py, write_masks_h5 / load_masks_h5. *)
(*   SpecLoad        : core/model_loader.py load_model with the device      *)
(*                     resolvers, _resolve_file and load_preset_params.     *)
(*   SpecAdapter     : the family loaders and generate functions as the     *)
(*                     dispatchers of model_loader and model_factory call   *)
(*                     them.                                                *)
(*   SpecTool        : build_mask_generator, remove_background_masks and    *)
(*                     mask_output_path, one call each.                     *)
(*                                                                          *)
(* Time is counted in ticks of half a polling interval.  Only time.sleep    *)
(* lets time pass; every other statement of the supervisor is taken to be   *)
(* instantaneous.                                                           *)
(***************************************************************************)
EXTENDS Integers, Sequences, FiniteSets, TLC

\* ------------------------------------------------------------------------
\* Bounds
\* ------------------------------------------------------------------------
MaxCalls == 2
MaxTimeout == 3
\* longest mask list and longest source-image byte string written
MaxMasks == 12
MaxJpegLen == 2
\* longest mask list handed to remove_background_masks
MaxFilterLen == 3
\* uploads accepted in one run of the backend
MaxJobs == 3

\* time.sleep(0.05), in ticks of 0.025 s
PollInterval == 2
\* signal.SIGKILL, reported by Process.exitcode as its negation
SIGKILL == 9

Timeouts == 0..MaxTimeout
\* what generator_fn can return / the traceback texts it can die with
ResultValues == {"masksA", "masksB"}
TracebackTexts == {"tbA", "tbB"}
\* exit codes of a child that dies inside generator_fn without posting
\* (SystemExit(0), SystemExit(1), SIGSEGV)
AbortCodes == {0, 1, -11}

None == "None"

VARIABLES
    \* ---- safe_generate_masks (supervisor) ----
    pc,            \* position of the supervisor in safe_generate_masks
    q,             \* the mp.Queue of the current call: messages not yet read
    status,        \* local `status`
    payload,       \* local `payload`
    start_time,    \* local `start_time`
    exit_code,     \* local `exit_code` (<<>> while unassigned)
    timeout,       \* argument `timeout`
    now,           \* wall clock, time.time()
    \* ---- the child process p ----
    wpc,           \* position of the child in _sam_worker
    exitcode,      \* p.exitcode: <<>> while None, <<c>> once exited
    sigkill,       \* a SIGKILL has been sent to p and not yet delivered
    \* ---- history of the current call ----
    posted,        \* messages the child has put on the channel, in order
    spawns,        \* children started by the current call
    gen_calls,     \* calls of generator_fn made for the current call
    killed,        \* p.kill() was executed in the current call
    \* ---- the caller ----
    caller_alive,  \* the calling process is running
    outcome,       \* how the current call ended (NoOutcome while it runs)
    results,       \* how each finished call ended, oldest first
    \* ---- cmd_generate run path ----
    rpc, cfg, gen_sites, run_result, out_file,
    \* ---- mask store ----
    spc, w_in, h5, loaded,
    \* ---- model_loader.load_model ----
    lpc,           \* position in load_model
    lin,           \* config.toml, the arguments and the machine
    files,         \* artifacts present in the model folder
    ldev,          \* local `device` of load_model
    fdev,          \* local `resolved_device` of the family loader
    resolved,      \* the calls of _resolve_file made so far, oldest first
    lpreset,       \* what load_preset_params did (<<>> before the call)
    lres,          \* how the load ended
    \* ---- the family adapters behind the two dispatchers ----
    apc,           \* position in the load / generate calls
    ain,           \* the dispatcher, the family and the preset's parameters
    aheavy,        \* calls of generator.generate(np_image) made
    ares,          \* how the calls ended
    \* ---- mask_generator, mask_helpers, mask_output_path ----
    tcall,         \* the call made: <<>> before it, else <<arguments, result>>
    \* ---- forensics-backend: the upload queue and its workers ----
    shutdown_at,   \* position in shutdown_event ("serving" before it runs)
    task_queue,    \* job ids put on task_queue and not yet taken, oldest first
    unfinished_tasks, \* the queue's count of items put and not yet task_done
    JOB_STATUS,    \* status of each job id ("absent" before upload_image)
    worker_at,     \* where each worker coroutine is suspended
    worker_job,    \* local `job_id` of each worker (0 before its first get)
    taken,         \* per job id, the queue.get() calls that returned it
    task_done      \* per job id, the queue.task_done() calls made for it

exec_vars == <<pc, q, status, payload, start_time, exit_code, timeout, now,
               wpc, exitcode, sigkill, posted, spawns, gen_calls, killed,
               caller_alive, outcome, results>>
run_vars == <<rpc, cfg, gen_sites, run_result, out_file>>
store_vars == <<spc, w_in, h5, loaded>>
load_vars == <<lpc, lin, files, ldev, fdev, resolved, lpreset, lres>>
adapter_vars == <<apc, ain, aheavy, ares>>
tool_vars == <<tcall>>
backend_vars == <<shutdown_at, task_queue, unfinished_tasks, JOB_STATUS,
                  worker_at, worker_job, taken, task_done>>
vars == <<exec_vars, run_vars, store_vars, load_vars, adapter_vars, tool_vars, backend_vars>>

\* ------------------------------------------------------------------------
\* The child process
\* ------------------------------------------------------------------------

\* p.is_alive()
is_alive == wpc \in {"spawned", "in_gen", "posted"}

\* q.empty()
q_empty == q = <<>>

\* q.put(msg): the message becomes visible to the supervisor
q_put(msg) ==
    /\ q' = Append(q, msg)
    /\ posted' = Append(posted, msg)

\* the message _sam_worker posts when generator_fn raised an Exception
ErrorMessage(tb) == [status |-> "error", payload |-> "text", text |-> tb]

\* the message _sam_worker posts when generator_fn returned
OkMessage(r) == [status |-> "ok", payload |-> "result", text |-> r]

\* _sam_worker line 49: the child enters generator_fn
WorkerCallGen ==
    /\ wpc = "spawned"
    /\ wpc' = "in_gen"
    /\ gen_calls' = gen_calls + 1
    /\ UNCHANGED <<pc, q, status, payload, start_time, exit_code, timeout, now,
                   exitcode, sigkill, posted, spawns, killed, caller_alive,
                   outcome, results>>

\* a worker that posts its result and then, falling into a cleanup path,
\* posts an error as well
GenReturnsTwice ==
    /\ wpc = "in_gen"
    /\ \E r \in ResultValues, tb \in TracebackTexts :
          /\ q' = q \o <<OkMessage(r), ErrorMessage(tb)>>
          /\ posted' = posted \o <<OkMessage(r), ErrorMessage(tb)>>
    /\ wpc' = "posted"
    /\ UNCHANGED <<pc, status, payload, start_time, exit_code, timeout, now,
                   exitcode, sigkill, spawns, gen_calls, killed, caller_alive,
                   outcome, results>>

\* _sam_worker lines 49-50: generator_fn returns, the child posts ("ok", result)
GenReturns ==
    /\ wpc = "in_gen"
    /\ \E r \in ResultValues : q_put(OkMessage(r))
    /\ wpc' = "posted"
    /\ UNCHANGED <<pc, status, payload, start_time, exit_code, timeout, now,
                   exitcode, sigkill, spawns, gen_calls, killed, caller_alive,
                   outcome, results>>

\* _sam_worker lines 51-52: generator_fn raises an Exception, the child posts
\* ("error", traceback.format_exc())
GenRaises ==
    /\ wpc = "in_gen"
    /\ \E tb \in TracebackTexts : q_put(ErrorMessage(tb))
    /\ wpc' = "posted"
    /\ UNCHANGED <<pc, status, payload, start_time, exit_code, timeout, now,
                   exitcode, sigkill, spawns, gen_calls, killed, caller_alive,
                   outcome, results>>

\* generator_fn run inside the calling process: an abort takes the caller down
GenAbortsInCaller ==
    /\ wpc = "in_gen"
    /\ \E c \in AbortCodes : exitcode' = <<c>>
    /\ wpc' = "exited"
    /\ caller_alive' = FALSE
    /\ UNCHANGED <<pc, q, status, payload, start_time, exit_code, timeout, now,
                   sigkill, posted, spawns, gen_calls, killed, outcome, results>>

\* generator_fn takes the process down (native abort, OOM kill, SystemExit):
\* `except Exception` is not reached and nothing is posted.  Only the child
\* dies: it is a separate process (mp.Process, "spawn").
GenAborts ==
    /\ wpc = "in_gen"
    /\ \E c \in AbortCodes : exitcode' = <<c>>
    /\ wpc' = "exited"
    /\ UNCHANGED <<pc, q, status, payload, start_time, exit_code, timeout, now,
                   sigkill, posted, spawns, gen_calls, killed, caller_alive,
                   outcome, results>>

\* the spawned interpreter dies before it reaches _sam_worker (the arguments
\* cannot be rebuilt in the child, the child is killed while it starts)
BootstrapFails ==
    /\ wpc = "spawned"
    /\ \E c \in AbortCodes \ {0} : exitcode' = <<c>>
    /\ wpc' = "exited"
    /\ UNCHANGED <<pc, q, status, payload, start_time, exit_code, timeout, now,
                   sigkill, posted, spawns, gen_calls, killed, caller_alive,
                   outcome, results>>

\* _sam_worker returns after its q.put and the child process exits with code 0
WorkerExit ==
    /\ wpc = "posted"
    /\ wpc' = "exited"
    /\ exitcode' = <<0>>
    /\ UNCHANGED <<pc, q, status, payload, start_time, exit_code, timeout, now,
                   sigkill, posted, spawns, gen_calls, killed, caller_alive,
                   outcome, results>>

\* the SIGKILL sent by p.kill() is delivered: the child dies wherever it is
WorkerKilled ==
    /\ sigkill
    /\ is_alive
    /\ wpc' = "exited"
    /\ exitcode' = <<-SIGKILL>>
    /\ sigkill' = FALSE
    /\ UNCHANGED <<pc, q, status, payload, start_time, exit_code, timeout, now,
                   posted, spawns, gen_calls, killed, caller_alive, outcome, results>>

\* A generator_fn that runs forever is a child that stays at "in_gen": no
\* fairness is assumed of GenReturns, GenRaises and GenAborts.

\* ------------------------------------------------------------------------
\* safe_generate_masks, the supervisor
\* ------------------------------------------------------------------------

\* _time.time() - start_time
elapsed == now - start_time

\* what a call returns or raises: the exception type, the fixed head of its
\* message, and the value the message or the return carries
Ending(kind, error, msg, value) ==
    [kind |-> kind, error |-> error, msg |-> msg, value |-> value]

NoOutcome == Ending(None, None, None, <<>>)

\* the call ends: it returns or raises e
End(e) ==
    /\ outcome' = e
    /\ results' = Append(results, [error |-> e.error, msg |-> e.msg])

\* lines 114-118: raise RuntimeError("SAM mask generator crashed unexpectedly ...
\* Exit code: {exit_code}")
RaiseCrash == Ending("raise", "RuntimeError", "crashed unexpectedly", exit_code)

\* a timeout reported under the head of the crash message
RaiseTimeoutAsCrash ==
    Ending("raise", "RuntimeError", "crashed unexpectedly", <<timeout>>)

\* lines 130-133: raise RuntimeError("Mask generation exceeded timeout ...")
RaiseTimeout == Ending("raise", "RuntimeError", "exceeded timeout", <<timeout>>)

\* lines 150-152: raise RuntimeError("Mask generation failed inside worker
\* process:\n\n{payload}")
RaiseInference == Ending("raise", "RuntimeError", "failed inside worker", <<payload>>)

\* lines 155-157: raise RuntimeError("Worker returned an unknown status ...")
RaiseUnknown == Ending("raise", "RuntimeError", "unknown status", <<status, payload>>)

\* line 146: return payload
ReturnPayload == Ending("return", None, "ok", <<payload>>)

\* lines 55-90: a call of safe_generate_masks by a live caller.  It makes a
\* new queue, starts one child on _sam_worker and notes the start time.
Call ==
    /\ pc \in {"idle", "done"}
    /\ caller_alive
    /\ Len(results) < MaxCalls
    /\ \E t \in Timeouts : timeout' = t
    /\ q' = <<>>
    /\ wpc' = "spawned"
    /\ exitcode' = <<>>
    /\ sigkill' = FALSE
    /\ start_time' = now
    /\ status' = None
    /\ payload' = None
    /\ exit_code' = <<>>
    /\ posted' = <<>>
    /\ spawns' = 1
    /\ gen_calls' = 0
    /\ killed' = FALSE
    /\ outcome' = NoOutcome
    /\ pc' = "poll"
    /\ UNCHANGED <<now, caller_alive, results>>

\* lines 102-104: if not q.empty(): status, payload = q.get(); break
PollQueue ==
    /\ pc = "poll"
    /\ IF ~q_empty
          THEN /\ status' = Head(q).status
               /\ payload' = Head(q).text
               /\ q' = Tail(q)
               /\ pc' = "join"
          ELSE /\ pc' = "alive"
               /\ UNCHANGED <<status, payload, q>>
    /\ UNCHANGED <<start_time, exit_code, timeout, now, wpc, exitcode, sigkill,
                   posted, spawns, gen_calls, killed, caller_alive, outcome, results>>

\* lines 107-108: if not p.is_alive(): exit_code = p.exitcode
CheckAlive ==
    /\ pc = "alive"
    /\ IF ~is_alive
          THEN /\ exit_code' = exitcode
               /\ pc' = "recheck"
          ELSE /\ pc' = "timeout"
               /\ UNCHANGED exit_code
    /\ UNCHANGED <<q, status, payload, start_time, timeout, now, wpc, exitcode,
                   sigkill, posted, spawns, gen_calls, killed, caller_alive,
                   outcome, results>>

\* the dead-child branch without the second look at the queue
RecheckQueueBlind ==
    /\ pc = "recheck"
    /\ End(RaiseCrash)
    /\ pc' = "done"
    /\ UNCHANGED <<q, status, payload, start_time, exit_code, timeout, now, wpc,
                   exitcode, sigkill, posted, spawns, gen_calls, killed,
                   caller_alive>>

\* the dead-child branch of a supervisor that starts the worker once more
\* before it gives up
RecheckQueueRetry ==
    /\ pc = "recheck"
    /\ IF q_empty /\ spawns < 2
          THEN /\ wpc' = "spawned"
               /\ exitcode' = <<>>
               /\ spawns' = spawns + 1
               /\ pc' = "poll"
               /\ UNCHANGED <<outcome, results>>
          ELSE IF q_empty
          THEN /\ End(RaiseCrash)
               /\ pc' = "done"
               /\ UNCHANGED <<wpc, exitcode, spawns>>
          ELSE /\ pc' = "poll"
               /\ UNCHANGED <<wpc, exitcode, spawns, outcome, results>>
    /\ UNCHANGED <<q, status, payload, start_time, exit_code, timeout, now,
                   sigkill, posted, gen_calls, killed, caller_alive>>

\* lines 109-120: if q.empty(): raise the crash failure; else: continue
RecheckQueue ==
    /\ pc = "recheck"
    /\ IF q_empty
          THEN /\ End(RaiseCrash)
               /\ pc' = "done"
          ELSE /\ pc' = "poll"
               /\ UNCHANGED <<outcome, results>>
    /\ UNCHANGED <<q, status, payload, start_time, exit_code, timeout, now, wpc,
                   exitcode, sigkill, posted, spawns, gen_calls, killed,
                   caller_alive>>

\* the timeout test of a loop that gives the worker one more interval
TimedOutLate == elapsed > timeout + 1

\* lines 123-124: elapsed = _time.time() - start_time; if elapsed > timeout
TimedOut == elapsed > timeout

CheckTimeout ==
    /\ pc = "timeout"
    /\ pc' = IF TimedOut THEN "kill" ELSE "sleep"
    /\ UNCHANGED <<q, status, payload, start_time, exit_code, timeout, now, wpc,
                   exitcode, sigkill, posted, spawns, gen_calls, killed,
                   caller_alive, outcome, results>>

\* a p.kill() that sends nothing
KillNothing ==
    /\ pc = "kill"
    /\ killed' = TRUE
    /\ pc' = "killjoin"
    /\ UNCHANGED <<q, status, payload, start_time, exit_code, timeout, now, wpc,
                   exitcode, sigkill, posted, spawns, gen_calls, caller_alive,
                   outcome, results>>

\* line 128: p.kill()
Kill ==
    /\ pc = "kill"
    /\ sigkill' = is_alive
    /\ killed' = TRUE
    /\ pc' = "killjoin"
    /\ UNCHANGED <<q, status, payload, start_time, exit_code, timeout, now, wpc,
                   exitcode, posted, spawns, gen_calls, caller_alive, outcome, results>>

\* p.join() returns once the child has exited
Joined == ~is_alive

\* lines 129-133: p.join(); raise the timeout failure
KillJoin ==
    /\ pc = "killjoin"
    /\ Joined
    /\ End(RaiseTimeout)
    /\ pc' = "done"
    /\ UNCHANGED <<q, status, payload, start_time, exit_code, timeout, now, wpc,
                   exitcode, sigkill, posted, spawns, gen_calls, killed,
                   caller_alive>>

\* line 136: _time.sleep(0.05)
Sleep ==
    /\ pc = "sleep"
    /\ now' = now + PollInterval
    /\ pc' = "poll"
    /\ UNCHANGED <<q, status, payload, start_time, exit_code, timeout, wpc,
                   exitcode, sigkill, posted, spawns, gen_calls, killed,
                   caller_alive, outcome, results>>

\* a supervisor that goes on without waiting for the child
JoinNoWait ==
    /\ pc = "join"
    /\ pc' = "interpret"
    /\ UNCHANGED <<q, status, payload, start_time, exit_code, timeout, now, wpc,
                   exitcode, sigkill, posted, spawns, gen_calls, killed,
                   caller_alive, outcome, results>>

\* line 139: p.join()
Join ==
    /\ pc = "join"
    /\ Joined
    /\ pc' = "interpret"
    /\ UNCHANGED <<q, status, payload, start_time, exit_code, timeout, now, wpc,
                   exitcode, sigkill, posted, spawns, gen_calls, killed,
                   caller_alive, outcome, results>>

\* lines 144-157: return payload, or raise on "error" / on an unknown status
Interpret ==
    /\ pc = "interpret"
    /\ End(IF status = "ok" THEN ReturnPayload
           ELSE IF status = "error" THEN RaiseInference
           ELSE RaiseUnknown)
    /\ pc' = "done"
    /\ UNCHANGED <<q, status, payload, start_time, exit_code, timeout, now, wpc,
                   exitcode, sigkill, posted, spawns, gen_calls, killed,
                   caller_alive>>

Supervisor ==
    \/ PollQueue \/ CheckAlive \/ RecheckQueue \/ CheckTimeout \/ Kill
    \/ KillJoin \/ Sleep \/ Join \/ Interpret

Worker ==
    \/ WorkerCallGen \/ GenReturns \/ GenRaises \/ GenAborts \/ BootstrapFails
    \/ WorkerExit \/ WorkerKilled

InitExec ==
    /\ pc = "idle"
    /\ q = <<>>
    /\ status = None
    /\ payload = None
    /\ start_time = 0
    /\ exit_code = <<>>
    /\ timeout = 0
    /\ now = 0
    /\ wpc = "none"
    /\ exitcode = <<>>
    /\ sigkill = FALSE
    /\ posted = <<>>
    /\ spawns = 0
    /\ gen_calls = 0
    /\ killed = FALSE
    /\ caller_alive = TRUE
    /\ outcome = NoOutcome
    /\ results = <<>>

InitRunIdle ==
    /\ rpc = "off"
    /\ cfg = <<>>
    /\ gen_sites = <<>>
    /\ run_result = None
    /\ out_file = None

InitStoreIdle ==
    /\ spc = "off"
    /\ w_in = <<>>
    /\ h5 = <<>>
    /\ loaded = <<>>

InitLoadIdle ==
    /\ lpc = "off"
    /\ lin = <<>>
    /\ files = {}
    /\ ldev = None
    /\ fdev = None
    /\ resolved = <<>>
    /\ lpreset = <<>>
    /\ lres = <<>>

InitAdapterIdle ==
    /\ apc = "off"
    /\ ain = <<>>
    /\ aheavy = 0
    /\ ares = None

InitToolIdle == tcall = <<>>

\* main.py 104: NUM_WORKERS = 3
NUM_WORKERS == 3
Workers == 1..NUM_WORKERS
JobIds == 1..MaxJobs

\* the backend before startup_event
InitBackendIdle ==
    /\ shutdown_at = "off"
    /\ task_queue = <<>>
    /\ unfinished_tasks = 0
    /\ JOB_STATUS = [j \in JobIds |-> "absent"]
    /\ worker_at = [w \in Workers |-> "off"]
    /\ worker_job = [w \in Workers |-> 0]
    /\ taken = [j \in JobIds |-> 0]
    /\ task_done = [j \in JobIds |-> 0]

Init == InitExec /\ InitRunIdle /\ InitStoreIdle /\ InitLoadIdle /\ InitAdapterIdle /\ InitToolIdle /\ InitBackendIdle

Next ==
    \/ Call /\ UNCHANGED <<run_vars, store_vars, load_vars, adapter_vars, tool_vars, backend_vars>>
    \/ PollQueue /\ UNCHANGED <<run_vars, store_vars, load_vars, adapter_vars, tool_vars, backend_vars>>
    \/ CheckAlive /\ UNCHANGED <<run_vars, store_vars, load_vars, adapter_vars, tool_vars, backend_vars>>
    \/ RecheckQueue /\ UNCHANGED <<run_vars, store_vars, load_vars, adapter_vars, tool_vars, backend_vars>>
    \/ CheckTimeout /\ UNCHANGED <<run_vars, store_vars, load_vars, adapter_vars, tool_vars, backend_vars>>
    \/ Kill /\ UNCHANGED <<run_vars, store_vars, load_vars, adapter_vars, tool_vars, backend_vars>>
    \/ KillJoin /\ UNCHANGED <<run_vars, store_vars, load_vars, adapter_vars, tool_vars, backend_vars>>
    \/ Sleep /\ UNCHANGED <<run_vars, store_vars, load_vars, adapter_vars, tool_vars, backend_vars>>
    \/ Join /\ UNCHANGED <<run_vars, store_vars, load_vars, adapter_vars, tool_vars, backend_vars>>
    \/ Interpret /\ UNCHANGED <<run_vars, store_vars, load_vars, adapter_vars, tool_vars, backend_vars>>
    \/ WorkerCallGen /\ UNCHANGED <<run_vars, store_vars, load_vars, adapter_vars, tool_vars, backend_vars>>
    \/ GenReturns /\ UNCHANGED <<run_vars, store_vars, load_vars, adapter_vars, tool_vars, backend_vars>>
    \/ GenRaises /\ UNCHANGED <<run_vars, store_vars, load_vars, adapter_vars, tool_vars, backend_vars>>
    \/ GenAborts /\ UNCHANGED <<run_vars, store_vars, load_vars, adapter_vars, tool_vars, backend_vars>>
    \/ BootstrapFails /\ UNCHANGED <<run_vars, store_vars, load_vars, adapter_vars, tool_vars, backend_vars>>
    \/ WorkerExit /\ UNCHANGED <<run_vars, store_vars, load_vars, adapter_vars, tool_vars, backend_vars>>
    \/ WorkerKilled /\ UNCHANGED <<run_vars, store_vars, load_vars, adapter_vars, tool_vars, backend_vars>>

Spec == Init /\ [][Next]_vars

\* The supervisor is a running thread of a live caller and the operating
\* system lets a child that has returned from _sam_worker exit and delivers
\* SIGKILL.  Nothing is assumed about when, or whether, the child reaches
\* generator_fn or generator_fn ends.
FairSpec ==
    /\ Spec
    /\ WF_vars(Supervisor /\ UNCHANGED <<run_vars, store_vars, load_vars, adapter_vars, tool_vars, backend_vars>>)
    /\ WF_vars(WorkerExit /\ UNCHANGED <<run_vars, store_vars, load_vars, adapter_vars, tool_vars, backend_vars>>)
    /\ WF_vars(WorkerKilled /\ UNCHANGED <<run_vars, store_vars, load_vars, adapter_vars, tool_vars, backend_vars>>)

\* ------------------------------------------------------------------------
\* Properties of safe_generate_masks
\* ------------------------------------------------------------------------

Running == pc \notin {"idle", "done"}
Ended == pc = "done"

IsOk == outcome.msg = "ok"
IsInference == outcome.msg = "failed inside worker"
IsCrash == outcome.msg = "crashed unexpectedly"
IsTimeout == outcome.msg = "exceeded timeout"

\* the ended call ended in one of the four documented ways, and in the way
\* the facts of the call call for
FourOutcomes ==
    Ended =>
       /\ IsOk \/ IsInference \/ IsCrash \/ IsTimeout
       /\ IsOk => /\ outcome.kind = "return"
                  /\ posted # <<>> /\ posted[1].status = "ok"
                  /\ outcome.value = <<posted[1].text>>
       /\ IsInference => /\ outcome.kind = "raise"
                         /\ posted # <<>> /\ posted[1].status = "error"
       /\ IsCrash => outcome.kind = "raise" /\ posted = <<>> /\ ~killed
       /\ IsTimeout => outcome.kind = "raise" /\ killed

\* C1: every call of safe_generate_masks with a finite timeout ends, and it
\* ends in exactly one of four ways (the worker's result, the inference
\* failure, the crash failure, the timeout failure), whatever the worker does:
\* no outcome exists while the call runs, and a running call always ends.
C1_FourOutcomesAndTermination ==
    /\ [](FourOutcomes /\ (Running => outcome = NoOutcome))
    /\ (Running ~> Ended)

\* a call over a worker that never left generator_fn ended by the timeout
C1_Witness ==
    /\ Ended /\ IsTimeout
    /\ gen_calls = 1 /\ posted = <<>> /\ exitcode = <<-SIGKILL>>

\* every message read from the channel was posted in this call, and nothing
\* of an earlier call is left in the channel
ChannelIsOfThisCall ==
    pc # "idle" =>
       IF status = None
          THEN q = posted
          ELSE /\ posted # <<>>
               /\ posted[1].status = status /\ posted[1].text = payload
               /\ q = Tail(posted)

\* C2: a child that exits without having posted makes the call raise the
\* crash failure carrying the child's exit code; the caller stays alive and
\* a later call runs on a new child and a new channel.
C2_CrashIsContained ==
    /\ caller_alive
    /\ ChannelIsOfThisCall
    /\ (Ended /\ IsCrash) =>
          /\ posted = <<>>
          /\ exitcode # <<>>
          /\ outcome.value = exitcode
    /\ (Ended /\ posted = <<>> /\ ~killed) => IsCrash

\* the first call crashed and the second one returned the worker's result
C2_Witness ==
    /\ Len(results) = 2
    /\ results[1].msg = "crashed unexpectedly"
    /\ Ended /\ IsOk /\ caller_alive

\* C3: a worker that overran the timeout is killed and waited for, and the
\* timeout failure is raised no later than timeout plus one polling interval
\* after the start, with the child no longer running; the supervisor never
\* sleeps again once the elapsed time exceeds the timeout.
C3_TimeoutKillsWithinBound ==
    /\ (Ended /\ IsTimeout) =>
          /\ ~is_alive
          /\ elapsed > timeout
          /\ elapsed <= timeout + PollInterval
    /\ pc = "sleep" => elapsed <= timeout
    /\ pc \in {"kill", "killjoin"} => elapsed > timeout

\* the timeout failure raised exactly one polling interval after the timeout
C3_Witness ==
    /\ Ended /\ IsTimeout
    /\ elapsed = timeout + PollInterval
    /\ exitcode = <<-SIGKILL>>

\* C4: an outcome posted before the child exited is never reported as a
\* crash: a crash is raised only when nothing was posted, and a call over a
\* worker that posted and was not killed reports what was posted.
C4_PostedIsNeverCrash ==
    /\ (Ended /\ IsCrash) => posted = <<>>
    /\ (Ended /\ posted # <<>> /\ ~killed) =>
          /\ outcome.value = <<posted[1].text>>
          /\ IF posted[1].status = "ok" THEN IsOk ELSE IsInference

\* the supervisor found the queue empty, then the child dead, and the
\* message is in the queue at the second look
C4_Witness == pc = "recheck" /\ ~q_empty /\ ~is_alive

\* C5: the worker posts at most one message, ("ok", result) or ("error",
\* traceback text), never a live exception object; the channel holds zero or
\* one message at every moment.
C5_OneShotChannel ==
    /\ Len(posted) <= 1
    /\ Len(q) <= 1
    /\ \A i \in DOMAIN posted :
          \/ posted[i].status = "ok" /\ posted[i].payload = "result"
                /\ posted[i].text \in ResultValues
          \/ posted[i].status = "error" /\ posted[i].payload = "text"
                /\ posted[i].text \in TracebackTexts

\* the channel holds the one error message of the worker
C5_Witness == Len(q) = 1 /\ q[1].status = "error" /\ wpc = "exited"

Failures == {i \in DOMAIN results : results[i].error # None}

\* C6 as stated: no two of the three failure situations raise the same kind
\* of error.
C6_DistinctErrorKinds ==
    \A i, j \in Failures :
       results[i].msg # results[j].msg => results[i].error # results[j].error

\* C6 (amended): the three failures are all raised as RuntimeError and are
\* told apart by the head of the message: "crashed unexpectedly" exactly for
\* a child that exited without posting, "exceeded timeout" exactly for a
\* killed child, "failed inside worker" exactly for a posted error, whose
\* text the message carries; a failure exists only once the loop has ended.
C6_DistinctByMessage ==
    /\ outcome # NoOutcome => Ended
    /\ (Ended /\ outcome.kind = "raise") =>
          /\ outcome.error = "RuntimeError"
          /\ IsCrash <=> (posted = <<>> /\ ~killed)
          /\ IsTimeout <=> killed
          /\ IsInference <=>
                (posted # <<>> /\ ~killed /\ posted[1].status = "error")
          /\ IsInference => outcome.value = <<posted[1].text>>

\* a crash and a timeout were raised by the two calls
C6_Witness ==
    /\ Len(results) = 2
    /\ results[1].msg = "crashed unexpectedly"
    /\ results[2].msg = "exceeded timeout"
    /\ results[1].error = results[2].error

\* C7 as stated: a call starts exactly one child and that child calls
\* generator_fn exactly once.
C7_ExactlyOneGenerate ==
    Ended => spawns = 1 /\ gen_calls = 1

\* C7 (amended): a call starts exactly one child, and that child calls
\* generator_fn at most once: exactly once when the call returns a result or
\* raises the inference failure, and not at all when the child is killed on
\* timeout or dies before it reached generator_fn; no failure starts another
\* child or another generator_fn call.
C7_AtMostOneGenerate ==
    /\ pc # "idle" => spawns = 1
    /\ gen_calls <= 1
    /\ (Ended /\ (IsOk \/ IsInference)) => gen_calls = 1
    /\ gen_calls = 0 => posted = <<>>

\* an inference failure after one child and one generator_fn call
C7_Witness == Ended /\ IsInference /\ spawns = 1 /\ gen_calls = 1

\* ------------------------------------------------------------------------
\* cmd_generate: the run path from the resolved image to the written container
\* ------------------------------------------------------------------------

Families == {"sam1", "sam2", "sam21"}

\* what one run is given: the state of the image folder, of the configuration
\* and of the mask folder, the command-line options, and what the family's
\* generate function does when it is reached
RunInputs ==
    [images : {"none", "missing", "found"},
     model_known : BOOLEAN,
     preset_group : BOOLEAN,
     preset : {"undefined", "defined"},
     family : Families \cup {"other"},
     provisioned : BOOLEAN,
     exists : BOOLEAN,
     overwrite : BOOLEAN,
     gen : {"returns", "RuntimeError", "ValueError", "aborts"}]

\* the run ends with this result
RunEnds(r) ==
    /\ run_result' = r
    /\ rpc' = "end"

\* model_loader.load_model: raises when an artifact cannot be resolved or the
\* family is unknown, else returns the family tag with the loaded model; for
\* family sam1 it calls load_sam1 with a device keyword that load_sam1 does
\* not take (model_loader.py line 253, model_sam1.py line 28)
load_model ==
    IF ~cfg.provisioned THEN "FileNotFoundError"
    ELSE IF cfg.family \notin Families THEN "ValueError"
    ELSE IF cfg.family = "sam1" THEN "TypeError"
    ELSE cfg.family

\* model_loader.run_model_generate_masks: the family's generate function is
\* called from the dispatcher, in the process that runs cmd_generate
run_model_generate_masks(family) ==
    IF family \in Families
       THEN <<[fn |-> family, process |-> "caller"]>>
       ELSE <<>>

\* model_factory._safe_wrapper: the family's generate function is handed to
\* safe_generate_masks, which calls it in a child process
safe_wrapper(family) ==
    IF family \in Families
       THEN <<[fn |-> family, process |-> "child"]>>
       ELSE <<>>

\* lines 86-112: the image is looked up by index or name
RunResolveImage ==
    /\ rpc = "image"
    /\ IF cfg.images = "found"
          THEN rpc' = "model" /\ UNCHANGED run_result
          ELSE RunEnds("ClickException")
    /\ UNCHANGED <<cfg, gen_sites, out_file>>

\* lines 121-134: the model key must be in [models]
RunResolveModel ==
    /\ rpc = "model"
    /\ IF cfg.model_known
          THEN rpc' = "preset" /\ UNCHANGED run_result
          ELSE RunEnds("ClickException")
    /\ UNCHANGED <<cfg, gen_sites, out_file>>

\* lines 139-166: the preset group and the preset name must exist
RunResolvePreset ==
    /\ rpc = "preset"
    /\ IF cfg.preset_group /\ cfg.preset = "defined"
          THEN rpc' = "load" /\ UNCHANGED run_result
          ELSE RunEnds("ClickException")
    /\ UNCHANGED <<cfg, gen_sites, out_file>>

\* the run goes on whatever load_model did
RunLoadModelUnchecked ==
    /\ rpc = "load"
    /\ rpc' = "out_path"
    /\ UNCHANGED <<cfg, gen_sites, run_result, out_file>>

\* lines 176-187: the image is decoded and the model loaded
RunLoadModel ==
    /\ rpc = "load"
    /\ IF load_model \in Families
          THEN rpc' = "out_path" /\ UNCHANGED run_result
          ELSE RunEnds(load_model)
    /\ UNCHANGED <<cfg, gen_sites, out_file>>

\* the run goes on to generate without looking at the output path
RunOutPathNoCheck ==
    /\ rpc = "out_path"
    /\ rpc' = "generate"
    /\ UNCHANGED <<cfg, gen_sites, run_result, out_file>>

\* lines 197-208: an existing container is kept unless --overwrite was given
RunOutPath ==
    /\ rpc = "out_path"
    /\ IF cfg.exists /\ ~cfg.overwrite
          THEN RunEnds("ClickException")
          ELSE rpc' = "generate" /\ UNCHANGED run_result
    /\ UNCHANGED <<cfg, gen_sites, out_file>>

\* lines 241-268: masks = run_model_generate_masks(family, ...); RuntimeError,
\* ValueError and any other Exception become a ClickException; a native abort
\* of generate ends the process it runs in
RunGenerate ==
    /\ rpc = "generate"
    /\ gen_sites' = gen_sites \o run_model_generate_masks(load_model)
    /\ IF cfg.gen = "returns"
          THEN rpc' = "write" /\ UNCHANGED run_result
          ELSE IF cfg.gen = "aborts"
          THEN RunEnds(IF gen_sites'[Len(gen_sites')].process = "caller"
                          THEN "process died"
                          ELSE "ClickException")
          ELSE RunEnds("ClickException")
    /\ UNCHANGED <<cfg, out_file>>

\* lines 294-315: the container is written to the canonical path
RunWrite ==
    /\ rpc = "write"
    /\ out_file' = "new"
    /\ RunEnds("written")
    /\ UNCHANGED <<cfg, gen_sites>>

InitRun ==
    /\ rpc = "image"
    /\ cfg \in RunInputs
    /\ gen_sites = <<>>
    /\ run_result = None
    /\ out_file = IF cfg.exists THEN "old" ELSE None

NextRun ==
    \/ RunResolveImage /\ UNCHANGED <<exec_vars, store_vars, load_vars, adapter_vars, tool_vars, backend_vars>>
    \/ RunResolveModel /\ UNCHANGED <<exec_vars, store_vars, load_vars, adapter_vars, tool_vars, backend_vars>>
    \/ RunResolvePreset /\ UNCHANGED <<exec_vars, store_vars, load_vars, adapter_vars, tool_vars, backend_vars>>
    \/ RunLoadModel /\ UNCHANGED <<exec_vars, store_vars, load_vars, adapter_vars, tool_vars, backend_vars>>
    \/ RunOutPath /\ UNCHANGED <<exec_vars, store_vars, load_vars, adapter_vars, tool_vars, backend_vars>>
    \/ RunGenerate /\ UNCHANGED <<exec_vars, store_vars, load_vars, adapter_vars, tool_vars, backend_vars>>
    \/ RunWrite /\ UNCHANGED <<exec_vars, store_vars, load_vars, adapter_vars, tool_vars, backend_vars>>

RunInit == InitExec /\ InitRun /\ InitStoreIdle /\ InitLoadIdle /\ InitAdapterIdle /\ InitToolIdle /\ InitBackendIdle

SpecRun == RunInit /\ [][NextRun]_vars

\* C8: on the run path every call of a family's generate function is made in
\* a supervised child process, never in the process that runs cmd_generate.
C8_GenerateOnlyInChild ==
    \A i \in DOMAIN gen_sites : gen_sites[i].process = "child"

\* C16: when the output file exists and overwrite was not requested, the run
\* fails without calling mask generation and the existing file stays as it
\* was; the file is written only when overwrite was requested or no file
\* existed.
C16_ExistingFileKept ==
    /\ (cfg.exists /\ ~cfg.overwrite) =>
          /\ gen_sites = <<>>
          /\ out_file = "old"
          /\ rpc \notin {"generate", "write"}
          /\ rpc = "end" => run_result # "written"
    /\ out_file = "new" => (cfg.overwrite \/ ~cfg.exists)

\* a run with a loadable model stopped at the existing output file
C16_Witness ==
    /\ rpc = "end"
    /\ cfg.exists /\ ~cfg.overwrite
    /\ cfg.images = "found" /\ cfg.model_known
    /\ cfg.preset_group /\ cfg.preset = "defined"
    /\ load_model \in Families
    /\ run_result = "ClickException"
    /\ out_file = "old"

\* ------------------------------------------------------------------------
\* mask_writer: write_masks_h5 and load_masks_h5
\* ------------------------------------------------------------------------
\* Optional values are sequences: <<>> is None (or an absent key), <<v>> is v.
\* Raster membership values and confidences are counted in thousandths.
\* A dict is the sequence of its items [key, val] in insertion order; keys and
\* JSON-able values are [t |-> python type, v |-> text of the value].

\* byte values the source image is made of
ByteValues == {0, 65, 255}

JpegInputs == UNION {[1..n -> ByteValues] : n \in 0..MaxJpegLen}

Py(t, v) == [t |-> t, v |-> v]
Item(k, v) == [key |-> k, val |-> v]

\* dicts as they are handed to the writer
DictSamples ==
    << <<>>,
       << Item(Py("str", "width"), Py("int", "64")),
          Item(Py("str", "dtype"), Py("str", "uint8")) >>,
       << Item(Py("str", "shape"), Py("list", "64,64,3")) >>,
       << Item(Py("str", "preset"), Py("str", "fast")),
          Item(Py("str", "elapsed_seconds"), Py("float", "1.5")) >> >>

\* mask records as the families produce them (mask_schema.make_mask_record)
MaskSamples ==
    << [mask |-> <<0, 1000>>, confidence |-> <<950>>, bbox |-> <<0, 0, 2, 1>>,
        area |-> <<1>>, track_id |-> <<>>, metadata |-> DictSamples[1]],
       [mask |-> <<1000, 1000>>, confidence |-> <<>>, bbox |-> <<>>,
        area |-> <<>>, track_id |-> <<>>, metadata |-> DictSamples[1]],
       [mask |-> <<501, 0>>, confidence |-> <<0>>, bbox |-> <<3, 4, 1, 1>>,
        area |-> <<0>>, track_id |-> <<0>>, metadata |-> DictSamples[3]],
       [mask |-> <<500, 499>>, confidence |-> <<1000>>, bbox |-> <<0, 0, 0, 0>>,
        area |-> <<2>>, track_id |-> <<7>>, metadata |-> DictSamples[4]],
       [mask |-> <<1000, 502>>, confidence |-> <<333>>, bbox |-> <<1, 1, 1, 1>>,
        area |-> <<2>>, track_id |-> <<1>>, metadata |-> DictSamples[2]] >>

Cyc(seq, i) == seq[((i - 1) % Len(seq)) + 1]

\* the mask list of length n that starts at sample `first`
MaskList(n, first) == [i \in 1..n |-> Cyc(MaskSamples, first + i - 1)]

\* ---- pure conversions --------------------------------------------------

\* str(idx): the decimal digits of idx
RECURSIVE str(_)
str(n) == IF n < 10 THEN <<n>> ELSE str(n \div 10) \o <<n % 10>>

\* int(name) of a decimal name
RECURSIVE int(_)
int(d) == IF Len(d) = 1 THEN d[1]
          ELSE 10 * int(SubSeq(d, 1, Len(d) - 1)) + d[Len(d)]

\* name order of HDF5 links: a < b as strings
RECURSIVE NameLess(_, _)
NameLess(a, b) ==
    IF a = <<>> THEN b # <<>>
    ELSE IF b = <<>> THEN FALSE
    ELSE IF a[1] # b[1] THEN a[1] < b[1]
    ELSE NameLess(Tail(a), Tail(b))

\* Group.keys(): the names of the group's members, in name order
RECURSIVE keys(_)
keys(names) ==
    IF names = {} THEN <<>>
    ELSE LET first == CHOOSE a \in names : \A b \in names \ {a} : NameLess(a, b)
         IN <<first>> \o keys(names \ {first})

\* np.frombuffer(jpeg_bytes, dtype=np.uint8) stored as a dataset kept as a
\* fixed-length byte string, which drops trailing NUL bytes
RECURSIVE StripNul(_)
StripNul(b) ==
    IF b # <<>> /\ b[Len(b)] = 0 THEN StripNul(SubSeq(b, 1, Len(b) - 1)) ELSE b

JpegDatasetAsString(b) ==
    [dtype |-> "uint8", shape |-> <<Len(StripNul(b))>>, data |-> StripNul(b)]

\* lines 73-77: np.frombuffer(jpeg_bytes, dtype=np.uint8) stored as a
\* gzip-compressed dataset: one uint8 element per byte
JpegDataset(b) ==
    [dtype |-> "uint8", shape |-> <<Len(b)>>,
     data |-> [i \in 1..Len(b) |-> b[i] % 256]]

\* line 152: bytes(jpeg_dset[:])
JpegBytes(dset) == [i \in 1..dset.shape[1] |-> dset.data[i]]

\* a cast to uint8 without the scaling by 255
QuantizeUnscaled(v) == (v \div 1000) % 256

\* a cast that rounds the product to the nearest integer
QuantizeRound(v) == (((v * 255) + 500) \div 1000) % 256

\* lines 86-87: (np.asarray(mask, float32) * 255).astype("uint8"), on one
\* pixel: the product is truncated and kept modulo 256
Quantize(v) == ((v * 255) \div 1000) % 256

\* line 170: mask_uint8 > 127
Threshold(u) == u > 127

\* json.dumps of a dict: keys become strings, tuples and lists become arrays,
\* int, float and str values stay what they are
JsonType(t) == IF t \in {"list", "tuple"} THEN "array"
               ELSE IF t \in {"int", "float"} THEN "number"
               ELSE "string"

json_dumps(d) ==
    [i \in 1..Len(d) |->
        [key |-> d[i].key.v,
         val |-> [t |-> JsonType(d[i].val.t), py |-> d[i].val.t,
                  v |-> d[i].val.v]]]

\* json.loads of an object: a dict with str keys; arrays come back as lists,
\* and a repeated key keeps its place and takes the later value
RECURSIVE json_loads_from(_, _)
json_loads_from(text, acc) ==
    IF text = <<>> THEN acc
    ELSE LET m == Head(text)
             k == Py("str", m.key)
             v == Py(IF m.val.t = "array" THEN "list" ELSE m.val.py, m.val.v)
             at == {i \in 1..Len(acc) : acc[i].key = k}
         IN json_loads_from(Tail(text),
               IF at = {} THEN Append(acc, Item(k, v))
               ELSE [i \in 1..Len(acc) |->
                       IF i \in at THEN Item(k, v) ELSE acc[i]])

json_loads(text) == json_loads_from(text, <<>>)

\* a group whose track id dataset always holds the sentinel
MaskGroupNoTrackId(m) ==
    [mask |-> [j \in 1..Len(m.mask) |-> Quantize(m.mask[j])],
     confidence |-> IF m.confidence = <<>> THEN 0 ELSE m.confidence[1],
     bbox |-> m.bbox,
     area |-> IF m.area = <<>> THEN 0 ELSE m.area[1],
     track_id |-> -1,
     metadata |-> json_dumps(m.metadata)]

\* lines 83-106: the group of one mask
MaskGroup(m) ==
    [mask |-> [j \in 1..Len(m.mask) |-> Quantize(m.mask[j])],
     confidence |-> IF m.confidence = <<>> THEN 0 ELSE m.confidence[1],
     bbox |-> m.bbox,
     area |-> IF m.area = <<>> THEN 0 ELSE m.area[1],
     track_id |-> IF m.track_id = <<>> THEN -1 ELSE m.track_id[1],
     metadata |-> json_dumps(m.metadata)]

\* lines 80-106: the group "masks" with one member per mask, named str(idx)
H5Masks(masks) ==
    [name \in {str(i - 1) : i \in 1..Len(masks)} |->
        MaskGroup(masks[int(name) + 1])]

\* lines 67-123: the file write_masks_h5 leaves at out_path
H5File(in) ==
    [image_jpeg |-> JpegDataset(in.jpeg_bytes),
     masks |-> H5Masks(in.masks),
     metadata |-> [input_info |-> json_dumps(in.image_info),
                   model_info |-> json_dumps(in.model_info),
                   preset_info |-> json_dumps(in.preset_info),
                   runinfo |-> json_dumps(in.runinfo)]]

\* lines 166-182: one entry of the returned mask list
LoadedMask(mg) ==
    [segmentation |-> [j \in 1..Len(mg.mask) |-> Threshold(mg.mask[j])],
     confidence |-> mg.confidence,
     bbox |-> mg.bbox,
     area |-> mg.area,
     track_id |-> mg.track_id,
     metadata |-> json_loads(mg.metadata)]

\* lines 145-186: what load_masks_h5 returns for a file
Loaded(f) ==
    LET names == keys(DOMAIN f.masks)
    IN [jpeg_bytes |-> JpegBytes(f.image_jpeg),
        input_info |-> json_loads(f.metadata.input_info),
        model_info |-> json_loads(f.metadata.model_info),
        preset_info |-> json_loads(f.metadata.preset_info),
        runinfo |-> json_loads(f.metadata.runinfo),
        masks |-> [k \in 1..Len(names) |-> LoadedMask(f.masks[names[k]])]]

\* ---- the store as a state machine ----------------------------------------

\* lines 67-88 of a write that stops at the mask at position `bad` (from 1),
\* which has no raster: the file was truncated on open, the image and the
\* groups of the masks before it are in place, the group of the failing mask
\* was created empty, and the metadata group was never reached
H5Partial(in, bad) ==
    [image_jpeg |-> JpegDataset(in.jpeg_bytes),
     masks |-> [name \in {str(i - 1) : i \in 1..bad} |->
                  IF int(name) + 1 < bad
                     THEN <<MaskGroup(in.masks[int(name) + 1])>>
                     ELSE <<>>]]

\* a container that write_masks_h5 left at out_path in an earlier run
OldContainer ==
    H5File([masks |-> MaskList(1, 1), jpeg_bytes |-> <<65>>,
            image_info |-> DictSamples[2], model_info |-> DictSamples[1],
            preset_info |-> DictSamples[4], runinfo |-> DictSamples[4]])

\* write_masks_h5 raises KeyError at m["mask"] (line 86) inside
\* with h5py.File(out_path, "w"), which closes the file as it is
WriteMasksH5Fails ==
    /\ spc = "input"
    /\ w_in.unwritable > 0
    /\ h5' = <<H5Partial(w_in, w_in.unwritable)>>
    /\ spc' = "write_failed"
    /\ UNCHANGED <<w_in, loaded>>

\* write_masks_h5(out_path, masks, jpeg_bytes, image_info, model_info,
\* preset_info, runinfo)
WriteMasksH5 ==
    /\ spc = "input"
    /\ w_in.unwritable = 0
    /\ h5' = <<H5File(w_in)>>
    /\ spc' = "written"
    /\ UNCHANGED <<w_in, loaded>>

\* load_masks_h5(path) of the file written
LoadMasksH5 ==
    /\ spc = "written"
    /\ loaded' = <<Loaded(h5[1])>>
    /\ spc' = "loaded"
    /\ UNCHANGED <<w_in, h5>>

\* load_masks_h5(path) after a failed write: nothing to open, the container
\* of the earlier run, or a file without its metadata group (KeyError, line
\* 154)
LoadAfterFailedWrite ==
    /\ spc = "write_failed"
    /\ IF h5 = <<>> THEN spc' = "load_missing" /\ UNCHANGED loaded
       ELSE IF "metadata" \in DOMAIN h5[1]
          THEN spc' = "loaded_old" /\ loaded' = <<Loaded(h5[1])>>
       ELSE spc' = "load_failed" /\ UNCHANGED loaded
    /\ UNCHANGED <<w_in, h5>>

InitStore ==
    /\ spc = "input"
    /\ \E n \in 0..MaxMasks, first \in 1..Len(MaskSamples),
          b \in JpegInputs, k \in 1..Len(DictSamples),
          bad \in {0, 1, MaxMasks - 1}, old \in {<<>>, <<OldContainer>>} :
          /\ bad <= n
          /\ bad # 0 => b = <<>> /\ k = 1
          /\ w_in = [masks |-> MaskList(n, first),
                     jpeg_bytes |-> b,
                     image_info |-> Cyc(DictSamples, k),
                     model_info |-> Cyc(DictSamples, k + 1),
                     preset_info |-> Cyc(DictSamples, k + 2),
                     runinfo |-> Cyc(DictSamples, k + 3),
                     unwritable |-> bad,
                     old |-> old]
          /\ h5 = old
    /\ loaded = <<>>

NextStore ==
    \/ WriteMasksH5 /\ UNCHANGED <<exec_vars, run_vars, load_vars, adapter_vars, tool_vars, backend_vars>>
    \/ WriteMasksH5Fails /\ UNCHANGED <<exec_vars, run_vars, load_vars, adapter_vars, tool_vars, backend_vars>>
    \/ LoadMasksH5 /\ UNCHANGED <<exec_vars, run_vars, load_vars, adapter_vars, tool_vars, backend_vars>>
    \/ LoadAfterFailedWrite /\ UNCHANGED <<exec_vars, run_vars, load_vars, adapter_vars, tool_vars, backend_vars>>

StoreInit == InitExec /\ InitRunIdle /\ InitStore /\ InitLoadIdle /\ InitAdapterIdle /\ InitToolIdle /\ InitBackendIdle

SpecStore == StoreInit /\ [][NextStore]_vars

WasLoaded == spc = "loaded"

\* C9: the source-image bytes read back equal the bytes written, byte for
\* byte, for every byte string including the empty one, whatever masks and
\* metadata were written with it.
C9_JpegBytesRoundTrip ==
    WasLoaded => loaded[1].jpeg_bytes = w_in.jpeg_bytes

\* bytes ending in a NUL byte, written next to a non-empty mask list
C9_Witness ==
    /\ WasLoaded
    /\ Len(w_in.jpeg_bytes) = MaxJpegLen
    /\ w_in.jpeg_bytes[MaxJpegLen] = 0
    /\ w_in.masks # <<>>

\* C10: the number of masks read equals the number written (zero included),
\* and in the mask read from each group every pixel written as exactly 0
\* reads back False and every pixel written as exactly 1 reads back True.
C10_CountAndBinaryPixels ==
    WasLoaded =>
       LET names == keys(DOMAIN h5[1].masks)
       IN /\ Len(loaded[1].masks) = Len(w_in.masks)
          /\ \A k \in 1..Len(loaded[1].masks) :
                LET written == w_in.masks[int(names[k]) + 1].mask
                    read == loaded[1].masks[k].segmentation
                IN /\ Len(read) = Len(written)
                   /\ \A j \in 1..Len(written) :
                         /\ written[j] = 0 => read[j] = FALSE
                         /\ written[j] = 1000 => read[j] = TRUE

\* a list of more than ten masks with pixels 0, 1 and in between was read back
C10_Witness ==
    /\ WasLoaded
    /\ Len(loaded[1].masks) > 10
    /\ \E k \in 1..Len(w_in.masks) :
          \E i, j \in 1..Len(w_in.masks[k].mask) :
             w_in.masks[k].mask[i] = 0 /\ w_in.masks[k].mask[j] = 1000
    /\ \E k \in 1..Len(w_in.masks) : w_in.masks[k].mask[1] = 501

\* the mask written at list position i (from 1), and the entry read at k
WrittenAt(i) == w_in.masks[i]
ReadAt(k) == loaded[1].masks[k]

\* the position (from 1) in the written list of the mask read at k
WrittenIndexOf(k) == int(keys(DOMAIN h5[1].masks)[k]) + 1

\* C11: the masks come back in the order they were written: for every i, the
\* i-th mask read is the one read from the group of the i-th mask written,
\* also for lists of more than ten masks.
C11_OrderPreserved ==
    WasLoaded =>
       /\ Len(loaded[1].masks) = Len(w_in.masks)
       /\ \A i \in 1..Len(w_in.masks) :
             /\ WrittenIndexOf(i) = i
             /\ ReadAt(i) = LoadedMask(h5[1].masks[str(i - 1)])

\* the fields the writer counts as set and valid
HasAllFields(m) ==
    /\ m.confidence # <<>>
    /\ Len(m.bbox) = 4
    /\ m.area # <<>> /\ m.area[1] >= 0
    /\ m.track_id # <<>> /\ m.track_id[1] >= 0

UnsetBbox == LoadedMask(MaskGroup([MaskSamples[2] EXCEPT !.bbox = <<>>])).bbox
UnsetArea == LoadedMask(MaskGroup([MaskSamples[2] EXCEPT !.area = <<>>])).area
UnsetTrackId ==
    LoadedMask(MaskGroup([MaskSamples[2] EXCEPT !.track_id = <<>>])).track_id

\* C13: a mask written with bbox, area or track id None reads back the
\* reserved unset value of that field, and no mask written with a valid value
\* (4-integer bbox, area >= 0, track id >= 0) reads back that unset value.
C13_UnsetDistinctFromSet ==
    WasLoaded =>
       \A k \in 1..Len(loaded[1].masks) :
          LET m == WrittenAt(WrittenIndexOf(k))
              r == ReadAt(k)
          IN /\ m.bbox = <<>> => r.bbox = UnsetBbox
             /\ m.area = <<>> => r.area = UnsetArea
             /\ m.track_id = <<>> => r.track_id = UnsetTrackId
             /\ Len(m.bbox) = 4 => r.bbox # UnsetBbox
             /\ (m.area # <<>> /\ m.area[1] >= 0) => r.area # UnsetArea
             /\ (m.track_id # <<>> /\ m.track_id[1] >= 0)
                   => r.track_id # UnsetTrackId

\* C14 as stated: a raster value v in [0, 1] reads back True when v > 0.5 and
\* False when v < 0.5 (values are in thousandths).
C14_ThresholdAtHalf ==
    WasLoaded =>
       \A k \in 1..Len(loaded[1].masks) :
          LET written == WrittenAt(WrittenIndexOf(k)).mask
              read == ReadAt(k).segmentation
          IN \A j \in 1..Len(written) :
                /\ written[j] > 500 => read[j] = TRUE
                /\ written[j] < 500 => read[j] = FALSE

\* C14, amended: a raster value v in [0, 1] reads back True exactly when
\* 255 v >= 128, that is when its stored byte is above the middle of 0..255;
\* so every v <= 0.5 reads False and every v >= 0.502 reads True, and equal
\* values read back equal booleans.
C14_ThresholdAtStoredByte ==
    WasLoaded =>
       \A k \in 1..Len(loaded[1].masks) :
          LET written == WrittenAt(WrittenIndexOf(k)).mask
              read == ReadAt(k).segmentation
          IN \A j \in 1..Len(written) :
                /\ read[j] = (written[j] * 255 >= 128 * 1000)
                /\ written[j] <= 500 => read[j] = FALSE
                /\ written[j] >= 502 => read[j] = TRUE

\* the values 0.499, 0.5, 0.501 and 0.502 were all read back
C14_Witness ==
    /\ WasLoaded
    /\ \A v \in {499, 500, 501, 502} :
          \E k \in 1..Len(loaded[1].masks) :
             \E j \in 1..Len(WrittenAt(WrittenIndexOf(k)).mask) :
                WrittenAt(WrittenIndexOf(k)).mask[j] = v

\* ------------------------------------------------------------------------
\* model_loader: load_model, the device resolvers, _resolve_file and
\* preset_loader.load_preset_params
\* ------------------------------------------------------------------------
\* A string "" is a key that is absent from config.toml (or has an empty
\* value).  A file name is "file" when it is a plain name and "url" when it
\* contains "://".

\* entries of [models] in config.toml
ModelEntries ==
    << [family |-> "sam2", type |-> "hiera_small", checkpoint |-> "file",
        url |-> TRUE, config |-> "file", config_url |-> TRUE],
       [family |-> "sam2", type |-> "hiera_small", checkpoint |-> "url",
        url |-> FALSE, config |-> "file", config_url |-> FALSE],
       [family |-> "sam2.1", type |-> "hiera_tiny", checkpoint |-> "file",
        url |-> FALSE, config |-> "url", config_url |-> FALSE],
       [family |-> "sam21", type |-> "hiera_tiny", checkpoint |-> "file",
        url |-> TRUE, config |-> "", config_url |-> FALSE],
       [family |-> "sam1", type |-> "vit_b", checkpoint |-> "file",
        url |-> TRUE, config |-> "", config_url |-> FALSE],
       [family |-> "", type |-> "vit_b", checkpoint |-> "file",
        url |-> TRUE, config |-> "", config_url |-> FALSE],
       [family |-> "sam2", type |-> "", checkpoint |-> "file",
        url |-> TRUE, config |-> "file", config_url |-> TRUE],
       [family |-> "sam3", type |-> "large", checkpoint |-> "file",
        url |-> TRUE, config |-> "file", config_url |-> TRUE],
       [family |-> "sam2", type |-> "hiera_small", checkpoint |-> "",
        url |-> TRUE, config |-> "file", config_url |-> TRUE] >>

ModelKeys == {"sam2_small", "sam1_vit_b"}
PresetNames == {"default", "detailed"}

\* preset groups of [presets]: preset name -> parameter bag
GroupSam2 ==
    ("default" :> [points_per_side |-> 32, pred_iou_thresh |-> 880])
    @@ ("fast" :> [points_per_side |-> 16, pred_iou_thresh |-> 800])

GroupSam1 ==
    ("default" :> [points_per_side |-> 32, pred_iou_thresh |-> 860])
    @@ ("detailed" :> [points_per_side |-> 64, pred_iou_thresh |-> 900])
    @@ ("fast" :> [points_per_side |-> 8, pred_iou_thresh |-> 860])

\* cfg.get("presets"): <<>> when there is no [presets] section, else <<root>>
PresetRoots ==
    { <<>>,
      << ("sam1_vit_b" :> GroupSam1) >>,
      << ("sam2_small" :> GroupSam2) @@ ("sam1_vit_b" :> GroupSam1) >> }

DeviceRequests == {"cpu", "cuda", "auto"}
Artifacts == {"checkpoint", "config"}

\* model_loader.resolve_device, lines 110-139
resolve_device(requested, cuda, mps) ==
    IF requested = "cuda" THEN (IF cuda THEN "cuda" ELSE "cpu")
    ELSE IF requested = "auto"
       THEN (IF cuda THEN "cuda" ELSE IF mps THEN "mps" ELSE "cpu")
    ELSE "cpu"

\* model_sam2._resolve_device / model_sam21._resolve_device, lines 42-65:
\* the device, or the error raised
_resolve_device(requested, cuda) ==
    IF requested = "cpu" THEN "cpu"
    ELSE IF requested = "cuda"
       THEN (IF cuda THEN "cuda" ELSE "RuntimeError")
    ELSE IF requested = "auto" THEN (IF cuda THEN "cuda" ELSE "cpu")
    ELSE "cpu"

\* model_loader._download_to, lines 39-45: one request for the url; the file
\* is written only when the request succeeded
_download_to(url, ok) ==
    [outcome |-> IF ok THEN "return" ELSE "raise",
     error |-> IF ok THEN None ELSE "RequestException",
     msg |-> None,
     downloads |-> <<url>>,
     exists |-> ok]

\* a resolver that fetches whatever the autodownload setting says
_resolve_file_eager(local, name, url_fallback, autodownload, ok) ==
    IF local
       THEN [outcome |-> "return", error |-> None, msg |-> None,
             downloads |-> <<>>, exists |-> TRUE]
       ELSE _download_to(IF name = "url" THEN "direct" ELSE "fallback", ok)

\* model_loader._resolve_file, lines 48-103.  local: the file is in the model
\* folder; ok: a download, if one is made, succeeds
_resolve_file(local, name, url_fallback, autodownload, ok) ==
    LET here == [outcome |-> "return", error |-> None, msg |-> None,
                 downloads |-> <<>>, exists |-> TRUE]
        fail(m) == [outcome |-> "raise", error |-> "FileNotFoundError",
                    msg |-> m, downloads |-> <<>>, exists |-> FALSE]
    IN IF name = "url"
          THEN IF local THEN here
               ELSE IF autodownload THEN _download_to("direct", ok)
               ELSE fail("Autodownload disabled")
          ELSE IF local THEN here
               ELSE IF ~url_fallback THEN fail("No URL fallback provided")
               ELSE IF ~autodownload THEN fail("Autodownload disabled")
               ELSE _download_to("fallback", ok)

\* a lookup whose error lists the preset groups instead of the presets
load_preset_params_groups(root, model_key, preset_name) ==
    IF root = <<>>
       THEN [outcome |-> "raise", error |-> "KeyError",
             msg |-> "No [presets] section", available |-> {},
             value |-> <<>>]
    ELSE IF model_key \notin DOMAIN root[1]
       THEN [outcome |-> "raise", error |-> "KeyError",
             msg |-> "No preset group", available |-> DOMAIN root[1],
             value |-> <<>>]
    ELSE IF preset_name \notin DOMAIN root[1][model_key]
       THEN [outcome |-> "raise", error |-> "KeyError",
             msg |-> "Preset not defined", available |-> DOMAIN root[1],
             value |-> <<>>]
    ELSE [outcome |-> "return", error |-> None, msg |-> None,
          available |-> {}, value |-> <<root[1][model_key][preset_name]>>]

\* preset_loader.load_preset_params, lines 8-62.  available: the names the
\* error message lists (sorted and joined in the code)
load_preset_params(root, model_key, preset_name) ==
    IF root = <<>>
       THEN [outcome |-> "raise", error |-> "KeyError",
             msg |-> "No [presets] section", available |-> {},
             value |-> <<>>]
    ELSE IF model_key \notin DOMAIN root[1]
       THEN [outcome |-> "raise", error |-> "KeyError",
             msg |-> "No preset group", available |-> DOMAIN root[1],
             value |-> <<>>]
    ELSE IF preset_name \notin DOMAIN root[1][model_key]
       THEN [outcome |-> "raise", error |-> "KeyError",
             msg |-> "Preset not defined",
             available |-> DOMAIN root[1][model_key],
             value |-> <<>>]
    ELSE [outcome |-> "return", error |-> None, msg |-> None,
          available |-> {}, value |-> <<root[1][model_key][preset_name]>>]

\* the call ends: an exception leaves it, or it returns
LoadEnds(via, how) ==
    /\ lres' = <<[via |-> via, outcome |-> how]>>
    /\ lpc' = "end"

\* load_model lines 160-175: the entry, its family and its type
LoadLookup ==
    /\ lpc = "lookup"
    /\ IF ~lin.known THEN LoadEnds("load_model", "KeyError")
       ELSE IF lin.entry.family = "" \/ lin.entry.type = ""
          THEN LoadEnds("load_model", "ValueError")
       ELSE lpc' = "device" /\ UNCHANGED lres
    /\ UNCHANGED <<lin, files, ldev, fdev, resolved, lpreset>>

\* load_model lines 189-190: device = resolve_device(raw_device)
LoadDevice ==
    /\ lpc = "device"
    /\ ldev' = resolve_device(lin.device, lin.cuda, lin.mps)
    /\ lpc' = "checkpoint"
    /\ UNCHANGED <<lin, files, fdev, resolved, lpreset, lres>>

\* one call of _resolve_file for an artifact, then on to `next`
Resolve(label, name, url_fallback, next) ==
    \E ok \in BOOLEAN :
       LET r == _resolve_file(label \in files, name, url_fallback,
                              lin.autodownload, ok)
       IN /\ resolved' = Append(resolved,
                [label |-> label, local |-> label \in files, name |-> name,
                 url_fallback |-> url_fallback,
                 autodownload |-> lin.autodownload, ok |-> ok, res |-> r])
          /\ files' = IF r.exists THEN files \cup {label} ELSE files
          /\ IF r.outcome = "raise"
                THEN LoadEnds("load_model", r.error)
                ELSE lpc' = next /\ UNCHANGED lres

\* load_model lines 196-210: the checkpoint
LoadCheckpoint ==
    /\ lpc = "checkpoint"
    /\ IF lin.entry.checkpoint = ""
          THEN /\ LoadEnds("load_model", "ValueError")
               /\ UNCHANGED <<files, resolved>>
          ELSE Resolve("checkpoint", lin.entry.checkpoint, lin.entry.url,
                       "preset_or_yaml")
    /\ UNCHANGED <<lin, ldev, fdev, lpreset>>

\* load_model lines 215-234: the config YAML, which sam1 does not have
LoadConfigYaml ==
    /\ lpc = "preset_or_yaml"
    /\ IF lin.entry.family = "sam1"
          THEN lpc' = "preset" /\ UNCHANGED <<files, resolved, lres>>
          ELSE IF lin.entry.config = ""
          THEN /\ LoadEnds("load_model", "ValueError")
               /\ UNCHANGED <<files, resolved>>
          ELSE Resolve("config", lin.entry.config, lin.entry.config_url,
                       "preset")
    /\ UNCHANGED <<lin, ldev, fdev, lpreset>>

\* load_model line 240: preset_params = load_preset_params(...)
LoadPreset ==
    /\ lpc = "preset"
    /\ LET r == load_preset_params(lin.presets, lin.model_key,
                                   lin.preset_name)
       IN /\ lpreset' = <<r>>
          /\ IF r.outcome = "raise"
                THEN LoadEnds("load_model", r.error)
                ELSE lpc' = "dispatch" /\ UNCHANGED lres
    /\ UNCHANGED <<lin, files, ldev, fdev, resolved>>

\* load_sam2 / load_sam21 (model_sam2.py lines 72-108): the family resolver,
\* then the model is built on the device it gave
LoadFamily(via, tag, device) ==
    LET d == _resolve_device(device, lin.cuda)
    IN IF d = "RuntimeError"
          THEN LoadEnds(via, "RuntimeError") /\ UNCHANGED fdev
          ELSE fdev' = d /\ LoadEnds(via, tag)

\* load_model lines 245-281: dispatch by family; load_sam1 is called with a
\* device keyword it does not take
LoadDispatch ==
    /\ lpc = "dispatch"
    /\ IF lin.entry.family = "sam1"
          THEN LoadEnds("load_model", "TypeError") /\ UNCHANGED fdev
       ELSE IF lin.entry.family = "sam2"
          THEN LoadFamily("load_model", "sam2", ldev)
       ELSE IF lin.entry.family \in {"sam2.1", "sam21"}
          THEN LoadFamily("load_model", "sam21", ldev)
       ELSE LoadEnds("load_model", "ValueError") /\ UNCHANGED fdev
    /\ UNCHANGED <<lin, files, ldev, resolved, lpreset>>

\* model_factory.make_model, lines 40-83: the family loaders are called
\* without a device, so the family resolver gets its default "auto"
MakeModel ==
    /\ lpc = "lookup"
    /\ lin.known
    /\ IF lin.entry.family = "sam1"
          THEN /\ LoadEnds("make_model",
                     IF lin.entry.type = "" THEN "ValueError" ELSE "sam1")
               /\ UNCHANGED fdev
       ELSE IF lin.entry.family = "sam2"
          THEN LoadFamily("make_model", "sam2", "auto")
       ELSE IF lin.entry.family \in {"sam2.1", "sam21"}
          THEN LoadFamily("make_model", "sam21", "auto")
       ELSE LoadEnds("make_model", "ValueError") /\ UNCHANGED fdev
    /\ UNCHANGED <<lin, files, ldev, resolved, lpreset>>

InitLoad ==
    /\ lpc = "lookup"
    /\ \E e \in 0..Len(ModelEntries) :
          lin \in [known : {e > 0},
                   entry : {ModelEntries[IF e = 0 THEN 1 ELSE e]},
                   model_key : ModelKeys,
                   preset_name : PresetNames,
                   presets : PresetRoots,
                   device : DeviceRequests,
                   cuda : BOOLEAN,
                   mps : BOOLEAN,
                   autodownload : BOOLEAN]
    /\ files \in SUBSET Artifacts
    /\ ldev = None
    /\ fdev = None
    /\ resolved = <<>>
    /\ lpreset = <<>>
    /\ lres = <<>>

NextLoad ==
    \/ LoadLookup /\ UNCHANGED <<exec_vars, run_vars, store_vars, adapter_vars, tool_vars, backend_vars>>
    \/ LoadDevice /\ UNCHANGED <<exec_vars, run_vars, store_vars, adapter_vars, tool_vars, backend_vars>>
    \/ LoadCheckpoint /\ UNCHANGED <<exec_vars, run_vars, store_vars, adapter_vars, tool_vars, backend_vars>>
    \/ LoadConfigYaml /\ UNCHANGED <<exec_vars, run_vars, store_vars, adapter_vars, tool_vars, backend_vars>>
    \/ LoadPreset /\ UNCHANGED <<exec_vars, run_vars, store_vars, adapter_vars, tool_vars, backend_vars>>
    \/ LoadDispatch /\ UNCHANGED <<exec_vars, run_vars, store_vars, adapter_vars, tool_vars, backend_vars>>
    \/ MakeModel /\ UNCHANGED <<exec_vars, run_vars, store_vars, adapter_vars, tool_vars, backend_vars>>

LoadInit == InitExec /\ InitRunIdle /\ InitStoreIdle /\ InitLoad /\ InitAdapterIdle /\ InitToolIdle /\ InitBackendIdle

SpecLoad == LoadInit /\ [][NextLoad]_vars

\* the call under way is load_model and it is past the given steps
ViaLoadModel ==
    /\ lpc \notin {"off", "lookup"}
    /\ lpc = "end" => lres[1].via = "load_model"

ViaMakeModel == lpc = "end" /\ lres[1].via = "make_model"

DeviceResolved == ViaLoadModel /\ ldev # None

\* the best device of the machine: CUDA, else Apple MPS, else the CPU
BestDevice == IF lin.cuda THEN "cuda" ELSE IF lin.mps THEN "mps" ELSE "cpu"

\* C17: with device "cuda" configured and no CUDA on the machine, load_model
\* fails; the device never resolves to the CPU, in load_model or in the
\* family loader it calls.
C17_CudaNeverDowngraded ==
    (DeviceResolved /\ lin.device = "cuda" /\ ~lin.cuda) =>
       /\ ldev # "cpu"
       /\ fdev # "cpu"
       /\ lpc = "end" => lres[1].outcome \notin {"sam1", "sam2", "sam21"}

\* C18: device "auto" never raises and resolves to the best device of the
\* machine ("cpu" when there is no accelerator), in resolve_device, in the
\* family resolver and in their composition in load_model.
C18_AutoPicksBest ==
    /\ (DeviceResolved /\ lin.device = "auto") =>
          /\ ldev = BestDevice
          /\ fdev # None => fdev = BestDevice
          /\ lpc = "end" => lres[1].outcome # "RuntimeError"
    /\ ViaMakeModel =>
          /\ fdev # None => fdev = BestDevice
          /\ lres[1].outcome # "RuntimeError"

\* the artifact has a remote source: its name is a URL or a fallback URL is
\* configured for it
RemoteConfigured(c) == c.name = "url" \/ c.url_fallback

\* C19 as stated: by (exists locally, remote source configured, autodownload)
\* _resolve_file returns the local path without a download, fails without a
\* download, fails naming the disabled autodownload, or downloads exactly
\* once and returns; and a returned path exists locally.
C19_ResolveFileTable ==
    \A i \in 1..Len(resolved) :
       LET c == resolved[i]
           r == c.res
       IN /\ c.local => r.outcome = "return" /\ r.downloads = <<>>
          /\ (~c.local /\ ~RemoteConfigured(c)) =>
                r.outcome = "raise" /\ r.downloads = <<>>
          /\ (~c.local /\ RemoteConfigured(c) /\ ~c.autodownload) =>
                /\ r.outcome = "raise"
                /\ r.msg = "Autodownload disabled"
                /\ r.downloads = <<>>
          /\ (~c.local /\ RemoteConfigured(c) /\ c.autodownload) =>
                r.outcome = "return" /\ Len(r.downloads) = 1
          /\ r.outcome = "return" => r.exists

\* C19, amended: as above, except that in the last case exactly one download
\* is attempted and the local path is returned only when that download
\* succeeds; when it fails its error leaves _resolve_file and no file is
\* written.
C19_ResolveFileTableOneAttempt ==
    \A i \in 1..Len(resolved) :
       LET c == resolved[i]
           r == c.res
       IN /\ c.local => r.outcome = "return" /\ r.downloads = <<>>
          /\ (~c.local /\ ~RemoteConfigured(c)) =>
                r.outcome = "raise" /\ r.downloads = <<>>
          /\ (~c.local /\ RemoteConfigured(c) /\ ~c.autodownload) =>
                /\ r.outcome = "raise"
                /\ r.msg = "Autodownload disabled"
                /\ r.downloads = <<>>
          /\ (~c.local /\ RemoteConfigured(c) /\ c.autodownload) =>
                /\ Len(r.downloads) = 1
                /\ c.ok => r.outcome = "return" /\ r.exists
                /\ ~c.ok => r.outcome = "raise" /\ ~r.exists
                            /\ r.error # "FileNotFoundError"
          /\ r.outcome = "return" => (r.exists /\ c.label \in files)

\* a checkpoint was found locally and the config YAML was then downloaded
C19_Witness ==
    /\ Len(resolved) = 2
    /\ resolved[1].local /\ resolved[1].res.outcome = "return"
    /\ ~resolved[2].local /\ resolved[2].res.outcome = "return"
    /\ resolved[2].res.downloads # <<>>
    /\ "config" \in files

\* C20: load_preset_params returns the configured parameter bag exactly when
\* a preset group exists for the model key and the preset name is defined in
\* it; otherwise it raises, and for a model key with a group and an undefined
\* preset name the error lists every preset name of that group; the lookup
\* leaves the configuration as it was.
C20_PresetLookup ==
    [][lpreset' # lpreset =>
          LET root == lin.presets
              r == lpreset'[1]
              group == root # <<>> /\ lin.model_key \in DOMAIN root[1]
              defined == group /\ lin.preset_name \in DOMAIN root[1][lin.model_key]
          IN /\ r.outcome = "return" <=> defined
             /\ defined => r.value = <<root[1][lin.model_key][lin.preset_name]>>
             /\ ~defined => r.outcome = "raise" /\ r.value = <<>>
             /\ (group /\ ~defined) =>
                   r.available = DOMAIN root[1][lin.model_key]
             /\ lin' = lin]_vars

\* a lookup of an undefined preset of a model key that has a group of two
C20_Witness ==
    /\ lpreset # <<>>
    /\ lpreset[1].outcome = "raise"
    /\ lin.presets # <<>>
    /\ lin.model_key \in DOMAIN lin.presets[1]
    /\ lin.preset_name \notin DOMAIN lin.presets[1][lin.model_key]
    /\ lpreset[1].available = {"default", "fast"}

\* ------------------------------------------------------------------------
\* cmd_generate: configuration and provisioning failures
\* ------------------------------------------------------------------------

\* the configuration of the run cannot give a loaded model: the model key or
\* the preset is not configured, the family is unknown, or an entry or an
\* artifact of the model is missing
ConfigFailure ==
    \/ ~cfg.model_known
    \/ ~cfg.preset_group
    \/ cfg.preset = "undefined"
    \/ cfg.family \notin Families
    \/ ~cfg.provisioned

\* C21: a run whose model key, preset group, preset name, family, config
\* entries or artifacts are not in order ends before generate is called in
\* any process and before the container file is created or modified.
C21_ConfigFailuresFailFast ==
    (rpc # "off" /\ ConfigFailure) =>
       /\ gen_sites = <<>>
       /\ rpc \notin {"out_path", "generate", "write"}
       /\ out_file = (IF cfg.exists THEN "old" ELSE None)
       /\ rpc = "end" => run_result \notin {None, "written"}

\* a run with an image, a model key and a preset ended in load_model on an
\* unknown family, with a container already in place and overwrite requested
C21_Witness ==
    /\ rpc = "end"
    /\ cfg.images = "found" /\ cfg.model_known
    /\ cfg.preset_group /\ cfg.preset = "defined"
    /\ cfg.provisioned /\ cfg.family = "other"
    /\ cfg.exists /\ cfg.overwrite
    /\ run_result = "ValueError"
    /\ out_file = "old"

\* ------------------------------------------------------------------------
\* The family adapters (model_sam1, model_sam2, model_sam21) as they are
\* called by model_loader (load_model, run_model_generate_masks) and by
\* model_factory (make_model, the safe wrapper)
\* ------------------------------------------------------------------------

\* keys read from the parameter mapping when the mask generator is built:
\* model_sam1.py lines 94-102, model_sam2.py / model_sam21.py lines 141-148
RequiredKeys(family) ==
    IF family = "sam1"
       THEN {"points_per_side", "pred_iou_thresh", "stability_score_thresh",
             "crop_n_layers", "crop_n_points_downscale_factor",
             "min_mask_region_area", "output_mode"}
       ELSE {"points_per_side", "pred_iou_thresh", "stability_score_thresh",
             "crop_n_layers", "min_mask_region_area"}

\* keys a preset of config.toml may carry
PresetKeys == RequiredKeys("sam1") \cup {"box_nms_thresh"}

\* parameters of the family loader: load_sam1(checkpoint, *, model_type),
\* load_sam2 / load_sam21(checkpoint, config, device="auto")
LoaderParams(family) ==
    IF family = "sam1" THEN {"checkpoint", "model_type"}
    ELSE {"checkpoint", "config", "device"}

LoaderDefaults(family) == IF family = "sam1" THEN {} ELSE {"device"}

\* arguments of the call made to the family loader: model_loader.py lines
\* 253-275 (all by keyword), model_factory.py lines 67-81
LoaderCall(via, family) ==
    IF via = "load_model"
       THEN IF family = "sam1" THEN {"checkpoint", "model_type", "device"}
            ELSE {"checkpoint", "config", "device"}
       ELSE IF family = "sam1" THEN {"checkpoint", "model_type"}
            ELSE {"checkpoint", "config"}

\* Python's binding of a call to a signature
Binds(args, params, defaults) ==
    args \subseteq params /\ (params \ defaults) \subseteq args

\* type of the third argument of the call made to the family's generate
\* function: run_model_generate_masks passes the preset's parameter dict
\* (model_loader.py lines 297-304, cmd_generate.py line 246), the safe
\* wrapper passes the preset name (model_factory.py lines 96-106)
ThirdArgument(via) == IF via = "load_model" THEN "dict" ELSE "str"

\* type the generate function uses its third parameter as: sam1 looks the
\* preset name up (load_preset_params hashes it), sam2 / sam21 subscript the
\* mapping
ThirdParameter(family) == IF family = "sam1" THEN "str" ELSE "dict"

AdapterEnds(how) ==
    /\ ares' = how
    /\ apc' = "end"

\* the dispatcher calls the family loader
AdapterLoad ==
    /\ apc = "load"
    /\ IF Binds(LoaderCall(ain.via, ain.family), LoaderParams(ain.family),
                LoaderDefaults(ain.family))
          THEN apc' = "generate" /\ UNCHANGED ares
          ELSE AdapterEnds("TypeError")
    /\ UNCHANGED <<ain, aheavy>>

\* a generate function that builds its generator without reading the keys
AdapterBuildLate ==
    /\ apc = "build"
    /\ apc' = "heavy"
    /\ UNCHANGED <<ain, aheavy, ares>>

\* the generate function is entered: the model_key check, and for sam1 the
\* preset lookup params = load_preset_params(model_key, preset_name)
AdapterGenerate ==
    /\ apc = "generate"
    /\ IF ain.family = "sam1" /\ ThirdArgument(ain.via) = "dict"
          THEN AdapterEnds("TypeError")
          ELSE apc' = "build" /\ UNCHANGED ares
    /\ UNCHANGED <<ain, aheavy>>

\* the mask generator is constructed from params[key] for each required key
AdapterBuild ==
    /\ apc = "build"
    /\ IF ain.family # "sam1" /\ ThirdArgument(ain.via) = "str"
          THEN AdapterEnds("TypeError")
       ELSE IF ~(RequiredKeys(ain.family) \subseteq ain.bag)
          THEN AdapterEnds("KeyError")
       ELSE apc' = "heavy" /\ UNCHANGED ares
    /\ UNCHANGED <<ain, aheavy>>

\* generator.generate(np_image): the masks, or a runtime failure
AdapterHeavy ==
    /\ apc = "heavy"
    /\ aheavy' = aheavy + 1
    /\ \E how \in {"masks", "RuntimeError"} : AdapterEnds(how)
    /\ UNCHANGED ain

InitAdapter ==
    /\ apc = "load"
    /\ ain \in [via : {"load_model", "make_model"},
                family : Families,
                bag : SUBSET PresetKeys]
    /\ aheavy = 0
    /\ ares = None

NextAdapter ==
    \/ AdapterLoad /\ UNCHANGED <<exec_vars, run_vars, store_vars, load_vars, tool_vars, backend_vars>>
    \/ AdapterGenerate
          /\ UNCHANGED <<exec_vars, run_vars, store_vars, load_vars, tool_vars, backend_vars>>
    \/ AdapterBuild /\ UNCHANGED <<exec_vars, run_vars, store_vars, load_vars, tool_vars, backend_vars>>
    \/ AdapterHeavy /\ UNCHANGED <<exec_vars, run_vars, store_vars, load_vars, tool_vars, backend_vars>>

AdapterInit == InitExec /\ InitRunIdle /\ InitStoreIdle /\ InitLoadIdle
    /\ InitAdapter /\ InitToolIdle /\ InitBackendIdle

SpecAdapter == AdapterInit /\ [][NextAdapter]_vars

\* the generate function was entered with a third argument of the type it
\* works with
GenerateEntered ==
    /\ apc \in {"build", "heavy", "end"}
    /\ Binds(LoaderCall(ain.via, ain.family), LoaderParams(ain.family),
             LoaderDefaults(ain.family))
    /\ ThirdArgument(ain.via) = ThirdParameter(ain.family)

\* C22: for every family, a parameter bag that lacks a required key makes
\* generate fail, with an error about the missing key, before
\* generator.generate is called on the image; the required keys depend on the
\* family only, and a bag that has them all does not fail this check.
C22_MissingKeyFailsBeforeGenerate ==
    GenerateEntered =>
       /\ ~(RequiredKeys(ain.family) \subseteq ain.bag) =>
             /\ aheavy = 0
             /\ apc # "heavy"
             /\ apc = "end" => ares = "KeyError"
       /\ RequiredKeys(ain.family) \subseteq ain.bag =>
             /\ ares # "KeyError"
             /\ apc = "end" => aheavy = 1

\* sam1 was given a bag that has the sam2 keys but not all sam1 keys, and
\* failed on the missing key without calling generator.generate
C22_Witness ==
    /\ GenerateEntered
    /\ apc = "end"
    /\ ain.family = "sam1"
    /\ ain.bag = RequiredKeys("sam2")
    /\ ares = "KeyError"
    /\ aheavy = 0

\* C23: for every family and through both dispatchers, a configuration with
\* all required parameters loads and generates without an argument or type
\* error.
C23_OneAdapterContract ==
    (apc = "end" /\ RequiredKeys(ain.family) \subseteq ain.bag) =>
       ares # "TypeError"

\* ------------------------------------------------------------------------
\* mask_generator.build_mask_generator, mask_helpers.remove_background_masks
\* and mask_writer.mask_output_path: one call of one of them
\* ------------------------------------------------------------------------
\* A dict with string keys is a function on its keys.  A string is the
\* sequence of its characters.  Thresholds and ratios are in thousandths.

\* mask_generator.py lines 23-31
ALLOWED_KEYS ==
    {"points_per_side", "points_per_batch",
     "pred_iou_thresh", "stability_score_thresh",
     "stability_score_offset", "box_nms_thresh",
     "crop_n_layers", "crop_nms_thresh",
     "crop_overlap_ratio", "crop_n_points_downscale_factor",
     "point_grids", "min_mask_region_area",
     "output_mode"}

\* keys and values of the mg_cfg dicts tried
ConfigKeys ==
    {"points_per_side", "pred_iou_thresh", "output_mode", "invalid_key",
     "auto_resize"}
ConfigValues == {16, 500}
GeneratorConfigs == UNION {[K -> ConfigValues] : K \in SUBSET ConfigKeys}

\* a builder that hands every entry of mg_cfg to the generator
build_mask_generator_unfiltered(mg_cfg) ==
    [kwargs |-> mg_cfg, mg_cfg |-> mg_cfg]

\* build_mask_generator, lines 37-50: the keyword arguments the generator is
\* constructed with, and mg_cfg as the call leaves it
build_mask_generator(mg_cfg) ==
    [kwargs |-> [k \in {x \in DOMAIN mg_cfg : x \in ALLOWED_KEYS} |->
                    mg_cfg[k]],
     mg_cfg |-> mg_cfg]

BuildMaskGenerator ==
    /\ tcall = <<>>
    /\ \E mg_cfg \in GeneratorConfigs :
          tcall' = <<[fn |-> "build_mask_generator", mg_cfg |-> mg_cfg,
                      out |-> build_mask_generator(mg_cfg)]>>

\* areas of the masks tried (<<>> is an unset area), image areas, thresholds
FilterAreas == {<<>>, <<0>>, <<2>>, <<4>>}
ImageAreas == {4}
Thresholds == {0, 500, 1000}
FilterInputs == UNION {[1..n -> [area : FilterAreas]] : n \in 0..MaxFilterLen}

\* (m.get("area") or 0) / image_area <= threshold, in exact arithmetic
KeptAsForeground(m, image_area, threshold) ==
    LET area == IF m.area = <<>> THEN 0 ELSE m.area[1]
    IN area * 1000 <= threshold * image_area

\* remove_background_masks, lines 30-41
remove_background_masks(masks, image_area, threshold) ==
    SelectSeq(masks, LAMBDA m : KeptAsForeground(m, image_area, threshold))

RemoveBackgroundMasks ==
    /\ tcall = <<>>
    /\ \E masks \in FilterInputs, a \in ImageAreas, t \in Thresholds :
          tcall' = <<[fn |-> "remove_background_masks", masks |-> masks,
                      image_area |-> a, threshold |-> t,
                      out |-> remove_background_masks(masks, a, t)]>>

\* str.lower, on the characters used here
lower(str_) == [i \in 1..Len(str_) |->
                  IF str_[i] = "A" THEN "a"
                  ELSE IF str_[i] = "B" THEN "b" ELSE str_[i]]

\* PurePath.stem: the name without its last suffix; a dot that starts or
\* ends the name begins no suffix
Stem(name) ==
    LET dots == {i \in 2..(Len(name) - 1) : name[i] = "."}
    IN IF dots = {} THEN name
       ELSE SubSeq(name, 1, (CHOOSE i \in dots : \A j \in dots : j <= i) - 1)

\* mask_output_path, lines 39-49
mask_output_path(image_path, model_key, preset, mask_folder) ==
    [folder |-> mask_folder,
     name |-> Stem(image_path.name) \o <<".">> \o lower(model_key)
              \o <<".">> \o lower(preset) \o <<".", "h", "5">>]

\* images (a.j, a.p and a.b.j in two folders), model keys and preset names
ImagePaths ==
    [folder : {"d1", "d2"},
     name : {<<"a", ".", "j">>, <<"a", ".", "p">>,
             <<"a", ".", "b", ".", "j">>}]
ModelKeyNames == {<<"a">>, <<"A">>, <<"b", ".", "a">>}
PresetNameTexts == {<<"f">>, <<"a", ".", "f">>}
Triples == [image : ImagePaths, key : ModelKeyNames, preset : PresetNameTexts]

\* two runs of cmd_generate (lines 197-202) with the same mask folder
MaskOutputPath ==
    /\ tcall = <<>>
    /\ \E a, b \in Triples :
          tcall' = <<[fn |-> "mask_output_path", a |-> a, b |-> b,
                      path_a |-> mask_output_path(a.image, a.key, a.preset,
                                                  "masks"),
                      path_b |-> mask_output_path(b.image, b.key, b.preset,
                                                  "masks")]>>

InitTool == tcall = <<>>

NextTool ==
    \/ BuildMaskGenerator /\ UNCHANGED <<exec_vars, run_vars, store_vars, load_vars, adapter_vars, backend_vars>>
    \/ RemoveBackgroundMasks /\ UNCHANGED <<exec_vars, run_vars, store_vars, load_vars, adapter_vars, backend_vars>>
    \/ MaskOutputPath /\ UNCHANGED <<exec_vars, run_vars, store_vars, load_vars, adapter_vars, backend_vars>>

ToolInit == InitExec /\ InitRunIdle /\ InitStoreIdle /\ InitLoadIdle
    /\ InitAdapterIdle /\ InitTool /\ InitBackendIdle

SpecTool == ToolInit /\ [][NextTool]_vars

Called(fn) == tcall # <<>> /\ tcall[1].fn = fn

\* C24: build_mask_generator constructs the generator with exactly the
\* entries of mg_cfg whose key is in ALLOWED_KEYS, values unchanged, and
\* leaves mg_cfg as it was.
C24_OnlyAllowedKeysPassed ==
    Called("build_mask_generator") =>
       LET c == tcall[1]
       IN /\ DOMAIN c.out.kwargs = DOMAIN c.mg_cfg \cap ALLOWED_KEYS
          /\ \A k \in DOMAIN c.out.kwargs : c.out.kwargs[k] = c.mg_cfg[k]
          /\ c.out.mg_cfg = c.mg_cfg

\* a config with two allowed keys and two others was filtered
C24_Witness ==
    /\ Called("build_mask_generator")
    /\ DOMAIN tcall[1].mg_cfg =
          {"points_per_side", "pred_iou_thresh", "invalid_key", "auto_resize"}
    /\ DOMAIN tcall[1].out.kwargs = {"points_per_side", "pred_iou_thresh"}
    /\ tcall[1].out.kwargs["points_per_side"] = 16
    /\ tcall[1].out.kwargs["pred_iou_thresh"] = 500

\* C25: remove_background_masks returns, in their order, exactly the masks
\* whose area / image_area is below the threshold; a mask whose ratio equals
\* or exceeds the threshold is removed; an unset area counts as 0.
C25_RemovesAtOrAboveThreshold ==
    Called("remove_background_masks") =>
       LET c == tcall[1]
           Ratio(m) == (IF m.area = <<>> THEN 0 ELSE m.area[1]) * 1000
           Below(m) == Ratio(m) < c.threshold * c.image_area
       IN c.out = SelectSeq(c.masks, Below)

\* C27: two different (image path, model key, preset name) triples never get
\* the same canonical path in one mask folder.
C27_NoPathCollision ==
    Called("mask_output_path") =>
       (tcall[1].a # tcall[1].b => tcall[1].path_a # tcall[1].path_b)

\* ------------------------------------------------------------------------
\* safe_generate_masks: the child at the end of a call
\* ------------------------------------------------------------------------

\* C26: when safe_generate_masks has returned or raised, whether with the
\* result, an inference failure, a crash or a timeout, the child it started
\* is not running.
C26_NoOrphanWorker ==
    (pc = "done" /\ outcome # NoOutcome) =>
       /\ ~is_alive
       /\ exitcode # <<>>
       /\ spawns = 1

\* two calls have ended, the first by a timeout that killed its child and
\* the second with the child's result
C26_Witness ==
    /\ pc = "done"
    /\ Len(results) = 2
    /\ results[1].msg = "exceeded timeout"
    /\ results[2].msg = "ok"
    /\ ~is_alive

\* ------------------------------------------------------------------------
\* mask_writer: a write that fails part-way
\* ------------------------------------------------------------------------

\* C28: after a write_masks_h5 that failed part-way, the file at out_path is
\* absent or is still the complete container that was there before, and a
\* later load_masks_h5 does not meet a partially written container.
C28_FailedWriteKeepsContainer ==
    /\ spc \in {"write_failed", "load_missing", "loaded_old", "load_failed"}
          => (h5 = <<>> \/ h5 = w_in.old)
    /\ spc # "load_failed"

\* ------------------------------------------------------------------------
\* forensics-backend/app/main.py: upload_image, worker, shutdown_event
\* ------------------------------------------------------------------------
\* The event loop runs one coroutine at a time, so the code between two
\* awaits is one step.  A job id stands for the uuid4 string; the "ext" a
\* status entry carries is left out, only its "status" is kept.

Terminal == {"complete", "failed"}

\* upload_image, from the return of to_thread(save_file) to its own return:
\* JOB_STATUS[job_id] = "queued"; await task_queue.put(processing_task).
\* The queue is unbounded, so put() does not suspend.  Requests are served
\* until the shutdown handler starts.
UploadImage ==
    /\ shutdown_at = "serving"
    /\ \E j \in JobIds :
          /\ JOB_STATUS[j] = "absent"
          /\ \A i \in JobIds : i < j => JOB_STATUS[i] # "absent"
          /\ JOB_STATUS' = [JOB_STATUS EXCEPT ![j] = "queued"]
          /\ task_queue' = Append(task_queue, j)
          /\ unfinished_tasks' = unfinished_tasks + 1
    /\ UNCHANGED <<shutdown_at, worker_at, worker_job, taken, task_done>>

\* worker, lines 61-68: queue.get() returns the oldest item, the status
\* becomes "processing", the worker suspends in asyncio.to_thread
WorkerGet(w) ==
    /\ worker_at[w] = "get"
    /\ task_queue # <<>>
    /\ LET j == Head(task_queue) IN
          /\ task_queue' = Tail(task_queue)
          /\ worker_job' = [worker_job EXCEPT ![w] = j]
          /\ JOB_STATUS' = [JOB_STATUS EXCEPT ![j] = "processing"]
          /\ taken' = [taken EXCEPT ![j] = @ + 1]
    /\ worker_at' = [worker_at EXCEPT ![w] = "to_thread"]
    /\ UNCHANGED <<shutdown_at, unfinished_tasks, task_done>>

\* a worker whose failure branch (lines 77-78) writes no status
WorkerReturnLeavesProcessing(w) ==
    /\ worker_at[w] = "to_thread"
    /\ \E success \in BOOLEAN :
          JOB_STATUS' = [JOB_STATUS EXCEPT ![worker_job[w]] =
                            IF success THEN "complete" ELSE @]
    /\ task_done' = [task_done EXCEPT ![worker_job[w]] = @ + 1]
    /\ unfinished_tasks' = unfinished_tasks - 1
    /\ worker_at' = [worker_at EXCEPT ![w] = "get"]
    /\ UNCHANGED <<shutdown_at, task_queue, worker_job, taken>>

\* worker, lines 68-81: process_image_sync returns True or False (it catches
\* its own exceptions), the status becomes "complete" or "failed",
\* queue.task_done() is called and the loop returns to queue.get()
WorkerReturn(w) ==
    /\ worker_at[w] = "to_thread"
    /\ \E success \in BOOLEAN :
          JOB_STATUS' = [JOB_STATUS EXCEPT ![worker_job[w]] =
                            IF success THEN "complete" ELSE "failed"]
    /\ task_done' = [task_done EXCEPT ![worker_job[w]] = @ + 1]
    /\ unfinished_tasks' = unfinished_tasks - 1
    /\ worker_at' = [worker_at EXCEPT ![w] = "get"]
    /\ UNCHANGED <<shutdown_at, task_queue, worker_job, taken>>

\* worker, lines 84-89: asyncio.to_thread itself raises (the thread cannot
\* be started); the entry is a dict by then, its status becomes "failed",
\* queue.task_done() is called and the loop returns to queue.get()
WorkerError(w) ==
    /\ worker_at[w] = "to_thread"
    /\ JOB_STATUS' = [JOB_STATUS EXCEPT ![worker_job[w]] = "failed"]
    /\ task_done' = [task_done EXCEPT ![worker_job[w]] = @ + 1]
    /\ unfinished_tasks' = unfinished_tasks - 1
    /\ worker_at' = [worker_at EXCEPT ![w] = "get"]
    /\ UNCHANGED <<shutdown_at, task_queue, worker_job, taken>>

\* shutdown_event, lines 112-116: the join is awaited only when qsize(),
\* the number of items not yet taken, is positive
ShutdownBegin ==
    /\ shutdown_at = "serving"
    /\ shutdown_at' = IF Len(task_queue) > 0 THEN "join" ELSE "cancel"
    /\ UNCHANGED <<task_queue, unfinished_tasks, JOB_STATUS, worker_at,
                   worker_job, taken, task_done>>

\* shutdown_event, line 116: task_queue.join() returns when every item put
\* has been marked task_done
ShutdownJoin ==
    /\ shutdown_at = "join"
    /\ unfinished_tasks = 0
    /\ shutdown_at' = "cancel"
    /\ UNCHANGED <<task_queue, unfinished_tasks, JOB_STATUS, worker_at,
                   worker_job, taken, task_done>>

\* shutdown_event, lines 119-126, and worker, lines 82-83: every worker task
\* is cancelled; each gets CancelledError at the await it is suspended in
\* (queue.get() or asyncio.to_thread) and breaks out of its loop, and
\* gather returns
ShutdownCancel ==
    /\ shutdown_at = "cancel"
    /\ worker_at' = [w \in Workers |-> "cancelled"]
    /\ shutdown_at' = "complete"
    /\ UNCHANGED <<task_queue, unfinished_tasks, JOB_STATUS, worker_job,
                   taken, task_done>>

\* startup_event, lines 100-108: an empty queue and NUM_WORKERS workers
\* suspended in queue.get()
InitBackend ==
    /\ shutdown_at = "serving"
    /\ task_queue = <<>>
    /\ unfinished_tasks = 0
    /\ JOB_STATUS = [j \in JobIds |-> "absent"]
    /\ worker_at = [w \in Workers |-> "get"]
    /\ worker_job = [w \in Workers |-> 0]
    /\ taken = [j \in JobIds |-> 0]
    /\ task_done = [j \in JobIds |-> 0]

WorkerStep(w) == WorkerGet(w) \/ WorkerReturn(w) \/ WorkerError(w)

\* the backend while it serves: no shutdown
NextServe ==
    \/ UploadImage /\ UNCHANGED <<exec_vars, run_vars, store_vars, load_vars, adapter_vars, tool_vars>>
    \/ (\E w \in Workers : WorkerGet(w)) /\ UNCHANGED <<exec_vars, run_vars, store_vars, load_vars, adapter_vars, tool_vars>>
    \/ (\E w \in Workers : WorkerReturn(w)) /\ UNCHANGED <<exec_vars, run_vars, store_vars, load_vars, adapter_vars, tool_vars>>
    \/ (\E w \in Workers : WorkerError(w)) /\ UNCHANGED <<exec_vars, run_vars, store_vars, load_vars, adapter_vars, tool_vars>>

\* the backend from startup to the end of the shutdown handler
NextBackend ==
    \/ NextServe
    \/ ShutdownBegin /\ UNCHANGED <<exec_vars, run_vars, store_vars, load_vars, adapter_vars, tool_vars>>
    \/ ShutdownJoin /\ UNCHANGED <<exec_vars, run_vars, store_vars, load_vars, adapter_vars, tool_vars>>
    \/ ShutdownCancel /\ UNCHANGED <<exec_vars, run_vars, store_vars, load_vars, adapter_vars, tool_vars>>

BackendInit == InitExec /\ InitRunIdle /\ InitStoreIdle /\ InitLoadIdle
    /\ InitAdapterIdle /\ InitToolIdle /\ InitBackend

\* the event loop resumes a worker whose await can return, and the thread
\* running process_image_sync ends (a sleep and two file operations)
ServeFairness == \A w \in Workers : WF_backend_vars(WorkerStep(w))

SpecServe == BackendInit /\ [][NextServe]_vars /\ ServeFairness

SpecBackend == BackendInit /\ [][NextBackend]_vars

\* C29: while the workers keep running, every job upload_image accepted
\* reaches "complete" or "failed", whether processing succeeds or fails,
\* and queue.task_done is called exactly once for each job taken from the
\* queue: never more often than the job was taken, and once in the end.
C29_EveryJobFinishes ==
    /\ \A j \in JobIds :
          (JOB_STATUS[j] \in {"queued", "processing"})
             ~> (JOB_STATUS[j] \in Terminal)
    /\ \A j \in JobIds : (taken[j] = 1) ~> (task_done[j] = 1)
    /\ [](\A j \in JobIds : task_done[j] <= taken[j] /\ taken[j] <= 1)

\* every job has been accepted, taken once and marked done once; one ended
\* "complete" and another "failed"
C29_Witness ==
    /\ \A j \in JobIds : JOB_STATUS[j] \in Terminal
                            /\ taken[j] = 1 /\ task_done[j] = 1
    /\ \E j, k \in JobIds : JOB_STATUS[j] = "complete"
                               /\ JOB_STATUS[k] = "failed"
    /\ unfinished_tasks = 0

\* C30: when shutdown_event has completed, every accepted job has status
\* "complete" or "failed"; none is left "queued" or "processing", a job a
\* worker was still processing when the shutdown began included.
C30_ShutdownWaitsForAcceptedWork ==
    shutdown_at = "complete" =>
        \A j \in JobIds : JOB_STATUS[j] # "absent" => JOB_STATUS[j] \in Terminal

====
